---- MODULE Spec2Model ----
(***************************************************************************)
(* A model of Yank/yamlbuild.py: the YamlBuilder that parses a YAML        *)
(* description of a batch of experiments, checks that no setup or          *)
(* simulation directory would be overwritten, and then sets up and runs    *)
(* the experiments one after another.                                      *)
(*                                                                         *)
(* Python dictionaries are functions whose DOMAIN is the set of keys that  *)
(* are present; paths are strings joined with "/".                         *)
(***************************************************************************)
EXTENDS Integers, Sequences, FiniteSets, TLC

(***************************************************************************)
(* Bounds of the model.                                                    *)
(***************************************************************************)
\* largest number of expanded combinations of one build
MaxExperiments == 2
\* largest number of directories that exist before the build starts
MaxInitDirs == 2

(***************************************************************************)
(* Paths.                                                                  *)
(***************************************************************************)
join(a, b) == a \o "/" \o b

SETUP_DIR == "setup"
SETUP_SYSTEMS_DIR == join(SETUP_DIR, "systems")
SETUP_MOLECULES_DIR == join(SETUP_DIR, "molecules")
EXPERIMENTS_DIR == "experiments"

get_molecule_setup_dir(output_dir, molecule_id) ==
    join(join(output_dir, SETUP_MOLECULES_DIR), molecule_id)

get_system_setup_dir(output_dir, receptor_id, ligand_id, solvent_id) ==
    join(join(output_dir, SETUP_SYSTEMS_DIR),
         receptor_id \o "_" \o ligand_id \o "_" \o solvent_id)

get_experiment_dir_of_batch(output_dir, experiment_dir) ==
    join(output_dir, EXPERIMENTS_DIR)

get_experiment_dir(output_dir, experiment_dir) ==
    join(join(output_dir, EXPERIMENTS_DIR), experiment_dir)

(***************************************************************************)
(* Options.  Only the options that steer the builder itself are modelled.  *)
(***************************************************************************)
EmptyDict == [key \in {} |-> TRUE]

OptionKeys == {"output_dir", "resume_setup", "resume_simulation"}

DEFAULT_OPTIONS ==
    [output_dir |-> "output", resume_setup |-> FALSE, resume_simulation |-> FALSE]

\* d.update(e): the keys of e win
update(d, e) ==
    [key \in DOMAIN d \cup DOMAIN e |-> IF key \in DOMAIN e THEN e[key] ELSE d[key]]

option_of_global(combination, global_options, key) == global_options[key]

\* combination['options'][key], falling back to self.options[key] on KeyError
option_of(combination, global_options, key) ==
    IF "options" \in DOMAIN combination /\ key \in DOMAIN combination["options"]
    THEN combination["options"][key]
    ELSE global_options[key]

\* experiment.get('options', {})
get_options(combination) ==
    IF "options" \in DOMAIN combination THEN combination["options"] ELSE EmptyDict

(***************************************************************************)
(* The configuration after parsing.                                        *)
(***************************************************************************)
\* self._molecules after _parse_molecules: a molecule read from a file with
\* a force-field script, one read from a file and parametrized on request,
\* one generated from its name and parametrized on request, one generated
\* from SMILES with a force-field script and an epik index, and one that no
\* experiment uses, whose id is also the id of the solvent
MoleculeTable ==
    [rec |-> [filepath |-> "rec.pdb", parameters |-> "leaprc.ff14SB"],
     lig |-> [filepath |-> "lig.mol2", parameters |-> "antechamber"],
     gen |-> [name |-> "benzene", parameters |-> "antechamber"],
     smi |-> [smiles |-> "Cc1ccccc1", parameters |-> "leaprc.gaff", epik |-> 0],
     pme |-> [filepath |-> "pme.pdb", parameters |-> "leaprc.ff14SB"]]

\* self._solvents after _parse_solvents
SolventTable ==
    [pme |-> [nonbondedMethod |-> "PME", clearance |-> "10*angstroms"]]

\* self.options after _parse_options: the defaults updated with the options
\* section of the document
GlobalOptions ==
    {DEFAULT_OPTIONS,
     update(DEFAULT_OPTIONS, [resume_setup |-> TRUE, resume_simulation |-> TRUE])}

\* the leaves of an experiment tree, in the order they are visited, and the
\* values each can hold; a tree has at most one of the option leaves
Leaves == <<"receptor", "ligand", "solvent", "output_dir", "resume_setup">>
OptionLeaves == {"output_dir", "resume_setup"}
LeafValues ==
    [receptor |-> {"rec", "gen"}, ligand |-> {"lig", "smi", "gen"}, solvent |-> {"pme"},
     output_dir |-> {"output", "alt"}, resume_setup |-> BOOLEAN]

\* the lists of alternatives a leaf can hold: values without repetition
Alternatives(values) ==
    {alts \in UNION {[1..n -> values] : n \in 1..MaxExperiments} :
        \A i, j \in DOMAIN alts : i # j => alts[i] # alts[j]}

RECURSIVE number_of_combinations(_, _)
number_of_combinations(tree, leaves) ==
    IF leaves = <<>> THEN 1
    ELSE (IF Head(leaves) \in DOMAIN tree THEN Len(tree[Head(leaves)]) ELSE 1)
           * number_of_combinations(tree, Tail(leaves))

\* the experiment sections of the documents: a tree gives each leaf it has
\* a list of alternatives, a single value being a list of one
OptionTrees ==
    {EmptyDict}
      \cup [output_dir : Alternatives(LeafValues.output_dir)]
      \cup [resume_setup : Alternatives(LeafValues.resume_setup)]
ExperimentTrees ==
    {tree \in {update(components, opts) :
                 components \in [receptor : Alternatives(LeafValues.receptor),
                                 ligand : Alternatives(LeafValues.ligand),
                                 solvent : Alternatives(LeafValues.solvent)],
                 opts \in OptionTrees} :
        number_of_combinations(tree, Leaves) <= MaxExperiments}

\* the part of a name that stands for the alternative chosen for a leaf
slug(leaf, value) ==
    IF leaf = "resume_setup" THEN (IF value THEN "True" ELSE "False") ELSE value

\* CombinatorialTree.named_combinations: the Cartesian product of the
\* alternatives of the leaves, each combination with the name made of the
\* slugs of the leaves that have several alternatives, joined by '_'; the
\* name is empty when no leaf has
RECURSIVE named_combinations(_, _)
named_combinations(tree, leaves) ==
    IF leaves = <<>> THEN <<[name |-> "", values |-> EmptyDict]>>
    ELSE LET leaf == Head(leaves)
             rest == named_combinations(tree, Tail(leaves))
         IN  IF leaf \notin DOMAIN tree THEN rest
             ELSE LET alts == tree[leaf]
                      named(a, r) ==
                          IF Len(alts) = 1 THEN r.name
                          ELSE IF r.name = "" THEN slug(leaf, a)
                          ELSE slug(leaf, a) \o "_" \o r.name
                  IN  [n \in 1..(Len(alts) * Len(rest)) |->
                          LET a == alts[((n - 1) \div Len(rest)) + 1]
                              r == rest[((n - 1) % Len(rest)) + 1]
                          IN  [name |-> named(a, r),
                               values |-> update(r.values, [l \in {leaf} |-> a])]]

\* the combination with the values of the leaves at their places
combination_of(values) ==
    LET components == [c \in {"receptor", "ligand", "solvent"} |-> values[c]]
        opts == [key \in DOMAIN values \cap OptionLeaves |-> values[key]]
    IN  IF opts = EmptyDict THEN [components |-> components]
        ELSE [components |-> components, options |-> opts]

\* _expand_experiments for a single experiment tree: the list of
\* (output path, combination) pairs, the path having no group prefix
expand_experiments(tree) ==
    LET named == named_combinations(tree, Leaves)
    IN  [i \in 1..Len(named) |->
            [path |-> named[i].name, combination |-> combination_of(named[i].values)]]

(***************************************************************************)
(* State.                                                                  *)
(***************************************************************************)
VARIABLES
    yaml_content,     \* the local variable yaml_content of __init__: the document
    mol_positions,    \* the argument mol_positions of remove_overlap
    fixed_groups,     \* the arguments *args of remove_overlap
    sigma,            \* the keyword argument sigma of remove_overlap
    x,                \* the local variable x of remove_overlap
    iterations,       \* how often the body of the loop of remove_overlap ran
    oe_positions,     \* the positions of the molecules of self._oe_molecules
    file_positions,   \* the positions in the files of the molecules given as files
    options,          \* self.options
    experiments,      \* what _expand_experiments yields, in order
    molecules,        \* self._molecules: molecule id -> descriptor
    solvents,         \* self._solvents: solvent id -> descriptor
    dict_order,       \* the order in which the items of a dictionary are visited
    oe_molecules,     \* keys of self._oe_molecules
    fixed_pos_cache,  \* keys of self._fixed_pos_cache
    dirs,             \* the directories that exist on the file system
    files,            \* the files this build wrote: path -> content
    pc,               \* where the builder is
    k,                \* index of the combination being checked or run
    resume,           \* the local variable resume of _run_experiment
    system_dir,       \* the local variable system_dir of _run_experiment
    fixed_pos,        \* keys of the local variable fixed_pos of _setup_molecules
    molecule,         \* the local variable molecule of _setup_molecules
    mol_idx,          \* position in args of the save loop of _setup_molecules
    openeye,          \* is the OpenEye toolkit installed: "unknown" until asked
    overlapping,      \* do the molecules given as files overlap: "unknown" until computed
    error,            \* the exception that ended the build, if any
    log               \* the file-system and external calls made so far

\* what the overlap resolver and the placement of the molecules work on
geometry == <<mol_positions, fixed_groups, sigma, x, iterations, oe_positions, file_positions>>

vars == <<yaml_content, geometry, options, experiments, molecules, solvents, dict_order, oe_molecules, fixed_pos_cache, dirs,
          files, pc, k, resume, system_dir, fixed_pos, molecule, mol_idx, openeye,
          overlapping, error, log>>

NoError == [type |-> "none"]

\* positions are not looked at
NoGeometry ==
    /\ mol_positions = <<>>
    /\ fixed_groups = <<>>
    /\ sigma = 0
    /\ x = <<>>
    /\ iterations = 0
    /\ oe_positions = [id \in {} |-> <<>>]
    /\ file_positions = [id \in {} |-> <<>>]

\* the values of the options that govern the combination at index i
output_dir_of(i) == option_of(experiments[i].combination, options, "output_dir")
resume_setup_of(i) == option_of(experiments[i].combination, options, "resume_setup")
resume_simulation_of(i) == option_of(experiments[i].combination, options, "resume_simulation")

components_of(i) == experiments[i].combination["components"]

\* the directories of the three stages of the combination at index i
receptor_dir_of(i) == get_molecule_setup_dir(output_dir_of(i), components_of(i).receptor)
ligand_dir_of(i) == get_molecule_setup_dir(output_dir_of(i), components_of(i).ligand)
system_dir_of(i) ==
    get_system_setup_dir(output_dir_of(i), components_of(i).receptor,
                         components_of(i).ligand, components_of(i).solvent)
experiment_dir_of(i) == get_experiment_dir(output_dir_of(i), experiments[i].path)

\* every directory some stage of some combination of exps would use
StageDirs(exps, opts) ==
    UNION {LET c == exps[i].combination
               out == option_of(c, opts, "output_dir")
               comp == c["components"]
           IN {get_molecule_setup_dir(out, comp.receptor),
               get_molecule_setup_dir(out, comp.ligand),
               get_system_setup_dir(out, comp.receptor, comp.ligand, comp.solvent),
               get_experiment_dir(out, exps[i].path)} : i \in 1..Len(exps)}

(***************************************************************************)
(* The state when build_experiment is called: the document was parsed by   *)
(* __init__, and some of the directories may be left from earlier builds.  *)
(***************************************************************************)
Init ==
    /\ yaml_content = [section \in {} |-> {}]
    /\ NoGeometry
    /\ options \in GlobalOptions
    /\ \E tree \in ExperimentTrees : experiments = expand_experiments(tree)
    /\ molecules = MoleculeTable
    /\ solvents = SolventTable
    /\ dict_order = <<>>
    /\ oe_molecules = {}
    /\ fixed_pos_cache = {}
    /\ dirs \in {D \in SUBSET StageDirs(experiments, options) : Cardinality(D) <= MaxInitDirs}
    /\ files = EmptyDict
    /\ pc = "check_setup_resume"
    /\ k = 1
    /\ resume = FALSE
    /\ system_dir = "none"
    /\ fixed_pos = {}
    /\ molecule = "none"
    /\ mol_idx = 1
    /\ openeye = "unknown"
    /\ overlapping = "unknown"
    /\ error = NoError
    /\ log = <<>>

(***************************************************************************)
(* Helpers of the actions.                                                 *)
(***************************************************************************)
\* what is appended to the log for one call
Event(op, arg) == [op |-> op, arg |-> arg, exp |-> k]

\* one event for each element of a list of arguments
events(arguments, op) == [i \in 1..Len(arguments) |-> Event(op, arguments[i])]

\* raise YamlParseError(...)
YamlParseError(where, what, directory, solving_option) ==
    [type |-> "YamlParseError", where |-> where, what |-> what,
     directory |-> directory, solving_option |-> solving_option, exp |-> k]

\* any other exception, raised by an external collaborator and not caught
ExternalError(where) == [type |-> "Exception", where |-> where, exp |-> k]

Raise_caught(e) ==
    /\ pc' = IF e.type = "YamlParseError" THEN "error" ELSE "yank_run"
    /\ error' = e

\* an exception is caught nowhere: it ends build_experiment
Raise(e) ==
    /\ pc' = IF e.type = "YamlParseError" THEN "error" ELSE "failed"
    /\ error' = e

(***************************************************************************)
(* _check_setup_resume: the dry run that looks for directories the build   *)
(* would overwrite.  One step examines one combination.                    *)
(***************************************************************************)
NoMessage == [what |-> "", directory |-> "", solving_option |-> ""]

Message(what, directory) == [what |-> what, directory |-> directory, solving_option |-> ""]

\* existing is os.path.exists, as the set of the paths that exist

check_molecule_dirs_ignoring_resume(output_dir, molecule_ids, resume_setup, existing) ==
    LET conflicts == SelectSeq(molecule_ids, LAMBDA molecule_id :
                         get_molecule_setup_dir(output_dir, molecule_id) \in existing)
    IN  IF conflicts = <<>> THEN NoMessage
        ELSE Message("molecule setup directory",
                     get_molecule_setup_dir(output_dir, conflicts[1]))

\* the loop over [receptor_id, ligand_id], which stops at the first conflict
check_molecule_dirs(output_dir, molecule_ids, resume_setup, existing) ==
    LET conflicts == SelectSeq(molecule_ids, LAMBDA molecule_id :
                         get_molecule_setup_dir(output_dir, molecule_id) \in existing
                         /\ ~resume_setup)
    IN  IF conflicts = <<>> THEN NoMessage
        ELSE Message("molecule setup directory",
                     get_molecule_setup_dir(output_dir, conflicts[1]))

\* the test of the system directory, which replaces err_msg
check_system_dir(err_msg, sys_dir, resume_setup, existing) ==
    IF sys_dir \in existing /\ ~resume_setup
    THEN Message("system setup directory", sys_dir)
    ELSE err_msg

\* solving_option is set when a setup directory conflicts
set_solving_option(err_msg) ==
    IF err_msg.what # ""
    THEN [err_msg EXCEPT !.solving_option = "resume_setup"]
    ELSE err_msg

check_experiment_dir_unless_setup(err_msg, experiment_dir, resume_sim, existing) ==
    IF err_msg.what = "" /\ experiment_dir \in existing /\ ~resume_sim
    THEN [what |-> "experiment directory", directory |-> experiment_dir,
          solving_option |-> "resume_simulation"]
    ELSE err_msg

\* the test of the experiment directory, which replaces err_msg and
\* solving_option
check_experiment_dir(err_msg, experiment_dir, resume_sim, existing) ==
    IF experiment_dir \in existing /\ ~resume_sim
    THEN [what |-> "experiment directory", directory |-> experiment_dir,
          solving_option |-> "resume_simulation"]
    ELSE err_msg

\* the body of the loop for one combination: err_msg and solving_option at
\* the final test, NoMessage when err_msg is still ''
check_combination(combination, exp_sub_dir, global_options, existing) ==
    LET output_dir == option_of(combination, global_options, "output_dir")
        resume_setup == option_of(combination, global_options, "resume_setup")
        resume_sim == option_of(combination, global_options, "resume_simulation")
        components == combination["components"]
        receptor_id == components.receptor
        ligand_id == components.ligand
        solvent_id == components.solvent
        after_molecules ==
            check_molecule_dirs(output_dir, <<receptor_id, ligand_id>>, resume_setup, existing)
        sys_dir == get_system_setup_dir(output_dir, receptor_id, ligand_id, solvent_id)
        after_system == check_system_dir(after_molecules, sys_dir, resume_setup, existing)
        experiment_dir == get_experiment_dir(output_dir, exp_sub_dir)
    IN  check_experiment_dir(set_solving_option(after_system), experiment_dir,
                             resume_sim, existing)

after_check_first_only(i, n) == [pc |-> "run_experiment", k |-> 1]

\* where the builder goes after combination i of n passed the check: to the
\* next combination and, after the last one, to the loop of build_experiment
after_check(i, n) ==
    IF i < n THEN [pc |-> "check_setup_resume", k |-> i + 1]
    ELSE [pc |-> "run_experiment", k |-> 1]

\* build_experiment calls _check_setup_resume, which examines combination k
\* and raises on a conflict; after the last combination the experiments run
check_setup_resume ==
    /\ pc = "check_setup_resume"
    /\ LET err == check_combination(experiments[k].combination, experiments[k].path,
                                    options, dirs)
       IN  IF err.what # ""
           THEN /\ Raise(YamlParseError("check_setup_resume", err.what, err.directory,
                                        err.solving_option))
                /\ k' = k
           ELSE /\ error' = error
                /\ pc' = after_check(k, Len(experiments)).pc
                /\ k' = after_check(k, Len(experiments)).k
    /\ UNCHANGED <<yaml_content, geometry, options, experiments, solvents, dict_order, molecules, oe_molecules,
                   fixed_pos_cache, dirs, files, resume, system_dir, fixed_pos, molecule, mol_idx,
                   openeye, overlapping, log>>

(***************************************************************************)
(* _run_experiment.                                                        *)
(***************************************************************************)
\* self._validate_options for the options modelled here, which need no
\* conversion: the experiment's options were validated by _parse_experiments
validate_options(opts) == [key \in DOMAIN opts \cap OptionKeys |-> opts[key]]

\* exp_opts: the global options updated with the experiment's
exp_opts_of(i) ==
    update(options, validate_options(get_options(experiments[i].combination)))

\* results_dir
results_dir_of(i) == get_experiment_dir(exp_opts_of(i)["output_dir"], experiments[i].path)

\* exp_name
exp_name_of(i) == IF experiments[i].path = "" THEN "experiment" ELSE experiments[i].path

stage_after_init_inverted(resumed) == IF resumed THEN "generate_yaml" ELSE "yank_resume"

stage_after_init_without_snapshot(resumed) == IF resumed THEN "yank_resume" ELSE "setup_system"

\* if resume: yank.resume(), else the experiment is set up
stage_after_init(resumed) == IF resumed THEN "yank_resume" ELSE "generate_yaml"

\* the start of _run_experiment for combination k: the experiment directory
\* is created unless it exists, and the Yank object is initialized
run_experiment ==
    /\ pc = "run_experiment"
    /\ LET results_dir == results_dir_of(k)
       IN  IF results_dir \notin dirs
           THEN /\ dirs' = dirs \cup {results_dir}
                /\ resume' = FALSE
                /\ log' = log \o <<Event("makedirs", results_dir), Event("Yank", results_dir)>>
           ELSE /\ dirs' = dirs
                /\ resume' = TRUE
                /\ log' = Append(log, Event("Yank", results_dir))
    /\ pc' = stage_after_init(resume')
    /\ system_dir' = "none"
    /\ UNCHANGED <<yaml_content, geometry, options, experiments, solvents, dict_order, molecules, oe_molecules, fixed_pos_cache,
                   files, k, fixed_pos, molecule, mol_idx, openeye, overlapping, error>>

\* yank.resume(), which can fail
yank_resume ==
    /\ pc = "yank_resume"
    /\ log' = Append(log, Event("yank.resume", results_dir_of(k)))
    /\ \/ pc' = "yank_run" /\ error' = error
       \/ Raise(ExternalError("yank.resume"))
    /\ UNCHANGED <<yaml_content, geometry, options, experiments, solvents, dict_order, molecules, oe_molecules, fixed_pos_cache,
                   dirs, files, k, resume, system_dir, fixed_pos, molecule, mol_idx, openeye, overlapping>>

\* yank.run(), which can fail; when it returns, build_experiment goes on
\* with the next combination
yank_run ==
    /\ pc = "yank_run"
    /\ log' = Append(log, Event("yank.run", results_dir_of(k)))
    /\ \/ /\ error' = error
          /\ IF k < Len(experiments)
             THEN pc' = "run_experiment" /\ k' = k + 1
             ELSE pc' = "done" /\ k' = k
       \/ Raise(ExternalError("yank.run")) /\ k' = k
    /\ UNCHANGED <<yaml_content, geometry, options, experiments, solvents, dict_order, molecules, oe_molecules, fixed_pos_cache,
                   dirs, files, resume, system_dir, fixed_pos, molecule, mol_idx, openeye, overlapping>>

\* self._raw_yaml: the deep copy of the molecules and solvents sections of
\* the document, taken before they are parsed
raw_yaml == [molecules |-> MoleculeTable, solvents |-> SolventTable]

\* _generate_yaml: the reproducibility copy, with the entries of the raw
\* document whose id is among the values of the components block
generate_yaml_content(combination) ==
    LET components == {combination["components"][c] : c \in DOMAIN combination["components"]}
    IN  [options |-> update(EmptyDict, get_options(combination)),
         molecules |-> [mol_id \in {id \in DOMAIN raw_yaml.molecules : id \in components}
                           |-> raw_yaml.molecules[mol_id]],
         solvents |-> [solvent_id \in {id \in DOMAIN raw_yaml.solvents : id \in components}
                          |-> raw_yaml.solvents[solvent_id]]]

generate_yaml ==
    /\ pc = "generate_yaml"
    /\ LET path == join(results_dir_of(k), exp_name_of(k) \o ".yaml")
       IN  /\ files' = update(files, [f \in {path} |->
                                         generate_yaml_content(experiments[k].combination)])
           /\ log' = Append(log, Event("generate_yaml", path))
    /\ pc' = "setup_system"
    /\ UNCHANGED <<yaml_content, geometry, options, experiments, solvents, dict_order, molecules, oe_molecules, fixed_pos_cache,
                   dirs, k, resume, system_dir, fixed_pos, molecule, mol_idx, openeye, overlapping,
                   error>>

(***************************************************************************)
(* _setup_system and _setup_molecules.                                     *)
(***************************************************************************)
\* system_dir of the combination being run
system_dir_now ==
    get_system_setup_dir(exp_opts_of(k)["output_dir"], components_of(k).receptor,
                         components_of(k).ligand, components_of(k).solvent)

exists_wrong_path(path, existing) == join(path, "leap.in") \in existing

\* os.path.exists(path)
exists(path, existing) == path \in existing

\* the start of _setup_system: an existing system directory is returned as
\* it is, otherwise it is created and the molecules are set up
setup_system ==
    /\ pc = "setup_system"
    /\ IF exists(system_dir_now, dirs)
       THEN /\ system_dir' = system_dir_now
            /\ pc' = "prepare_amber"
            /\ UNCHANGED <<dirs, log>>
       ELSE /\ dirs' = dirs \cup {system_dir_now}
            /\ log' = Append(log, Event("makedirs", system_dir_now))
            /\ pc' = "setup_molecules"
            /\ UNCHANGED system_dir
    /\ UNCHANGED <<yaml_content, geometry, options, experiments, solvents, dict_order, molecules, oe_molecules,
                   fixed_pos_cache, files, k, resume, fixed_pos, molecule, mol_idx,
                   openeye, overlapping, error>>

\* args of _setup_molecules(output_dir, receptor_id, ligand_id)
args == <<components_of(k).receptor, components_of(k).ligand>>
arg_ids == {args[i] : i \in 1..2}

\* the molecules of this setup whose positions are fixed
file_mol_ids == {mol_id \in arg_ids : "filepath" \in DOMAIN molecules[mol_id]
                                      /\ mol_id \notin oe_molecules}

\* the toolkit is there or not, and stays so once it was asked for
is_openeye_installed == IF openeye = "unknown" THEN {"yes", "no"} ELSE {openeye}

\* the first part of _setup_molecules: the molecules that are not given as
\* files are generated with OpenEye; without the toolkit _generate_molecule
\* raises YamlParseError, and the generation itself can fail
setup_molecules ==
    /\ pc = "setup_molecules"
    /\ LET to_generate == {mol_id \in arg_ids : mol_id \notin file_mol_ids
                                                /\ mol_id \notin oe_molecules}
       IN  IF to_generate = {}
           THEN /\ pc' = "fixed_positions"
                /\ UNCHANGED <<oe_molecules, openeye, error, log>>
           ELSE /\ log' = log \o events(SelectSeq(args, LAMBDA mol_id : mol_id \in to_generate),
                                       "generate_molecule")
                /\ \E installed \in is_openeye_installed :
                     /\ openeye' = installed
                     /\ IF installed = "no"
                        THEN /\ Raise(YamlParseError("generate_molecule",
                                         "could not find OpenEye toolkit", "", ""))
                             /\ UNCHANGED oe_molecules
                        ELSE \/ /\ oe_molecules' = oe_molecules \cup to_generate
                                /\ pc' = "fixed_positions"
                                /\ error' = error
                             \/ /\ Raise(ExternalError("generate_molecule"))
                                /\ UNCHANGED oe_molecules
    /\ fixed_pos' = {}
    /\ molecule' = "none"
    /\ mol_idx' = 1
    /\ UNCHANGED <<yaml_content, geometry, options, experiments, solvents, dict_order, molecules, fixed_pos_cache, dirs, files, k,
                   resume, system_dir, overlapping>>

\* do two molecules given as files overlap: the same answer every time
have_overlapping_atoms ==
    IF overlapping = "unknown" THEN {"yes", "no"} ELSE {overlapping}

\* the second part: the positions of the molecules given as files are read
\* (or taken from the cache) and checked for overlapping atoms
fixed_positions ==
    /\ pc = "fixed_positions"
    /\ \E installed \in is_openeye_installed :
         /\ openeye' = installed
         /\ IF installed = "no"
            THEN /\ pc' = "remove_overlap"
                 /\ UNCHANGED <<fixed_pos, fixed_pos_cache, overlapping, error, log>>
            ELSE LET to_read == file_mol_ids \ fixed_pos_cache
                 IN  /\ log' = log \o events(SelectSeq(args, LAMBDA mol_id : mol_id \in to_read),
                                            "read_oe_molecule")
                     /\ \/ /\ to_read # {}
                           /\ Raise(ExternalError("read_oe_molecule"))
                           /\ UNCHANGED <<fixed_pos, fixed_pos_cache, overlapping>>
                        \/ IF Cardinality(file_mol_ids) > 1
                           THEN \E overlap \in have_overlapping_atoms :
                                  /\ overlapping' = overlap
                                  /\ IF overlap = "yes"
                                     THEN /\ Raise(YamlParseError("setup_molecules",
                                                 "The given molecules have overlapping atoms!",
                                                 "", ""))
                                          /\ UNCHANGED <<fixed_pos, fixed_pos_cache>>
                                     ELSE /\ fixed_pos' = file_mol_ids
                                          /\ fixed_pos_cache' = fixed_pos_cache \cup file_mol_ids
                                          /\ pc' = "remove_overlap"
                                          /\ error' = error
                           ELSE /\ fixed_pos' = file_mol_ids
                                /\ fixed_pos_cache' = fixed_pos_cache \cup file_mol_ids
                                /\ pc' = "remove_overlap"
                                /\ UNCHANGED <<overlapping, error>>
    /\ UNCHANGED <<yaml_content, geometry, options, experiments, solvents, dict_order, molecules, oe_molecules, dirs, files, k,
                   resume, system_dir, molecule, mol_idx>>

\* the third part: every generated molecule is moved away from the
\* molecules placed so far and becomes fixed for the next one; the local
\* variable molecule is left at the last generated molecule of args
remove_overlap_loop ==
    /\ pc = "remove_overlap"
    /\ LET generated == SelectSeq(args, LAMBDA mol_id : mol_id \in oe_molecules)
           moved == IF generated = <<>> THEN <<>>
                    ELSE IF fixed_pos # {} THEN generated
                    ELSE Tail(generated)
       IN  /\ fixed_pos' = fixed_pos \cup {generated[i] : i \in 1..Len(generated)}
           /\ molecule' = IF generated = <<>> THEN molecule ELSE generated[Len(generated)]
           /\ log' = log \o events(moved, "remove_overlap")
    /\ pc' = "save_molecule"
    /\ UNCHANGED <<yaml_content, geometry, options, experiments, solvents, dict_order, molecules, oe_molecules, fixed_pos_cache,
                   dirs, files, k, resume, system_dir, mol_idx, openeye, overlapping, error>>

skip_molecule_with_directory(generated, mol_descr, mol_dir_exists) ==
    \/ ~(generated \/ mol_descr["parameters"] = "antechamber")
    \/ mol_dir_exists

\* the molecules the save loop passes over: the ones that need neither a
\* mol2 file nor parameters, and the ones given as files whose directory
\* exists; generated tells whether the molecule is in self._oe_molecules
skip_molecule(generated, mol_descr, mol_dir_exists) ==
    \/ ~(generated \/ mol_descr["parameters"] = "antechamber")
    \/ (mol_dir_exists /\ ~generated)

\* the last part, for the molecule at position mol_idx of args: the
\* molecule is written to its directory, its protonation state is chosen
\* with epik and it is parametrized with antechamber, as far as its
\* description asks for it; epik and antechamber can fail.  stop tells where
\* the body ends: "return" when it runs through, or the call that fails.
save_molecule_effect(mol_id, stop) ==
    LET mol_descr == molecules[mol_id]
        output_dir == exp_opts_of(k)["output_dir"]
        mol_dir == get_molecule_setup_dir(output_dir, mol_id)
        skipped == skip_molecule(mol_id \in oe_molecules, mol_descr, mol_dir \in dirs)
        \* write the generated molecule to a mol2 file
        written == mol_id \in oe_molecules
        mol2_file == join(mol_dir, mol_id \o ".mol2")
        descr1 == IF written THEN update(mol_descr, [filepath |-> mol2_file]) ELSE mol_descr
        files1 == IF written
                  THEN update(files, [f \in {mol2_file} |-> [structure |-> molecule]])
                  ELSE files
        log1 == log \o (IF mol_dir \in dirs THEN <<>> ELSE <<Event("makedirs", mol_dir)>>)
                    \o (IF written THEN <<Event("molecule_to_mol2", mol2_file)>> ELSE <<>>)
        \* epik
        with_epik == "epik" \in DOMAIN mol_descr
        epik_output_file == join(mol_dir, mol_id \o "-epik.mol2")
        descr2 == IF with_epik THEN update(descr1, [filepath |-> epik_output_file]) ELSE descr1
        files2 == IF with_epik
                  THEN update(files1, [f \in {epik_output_file} |-> [epik |-> descr1["filepath"]]])
                  ELSE files1
        log2 == log1 \o (IF with_epik THEN <<Event("run_epik", descr1["filepath"])>> ELSE <<>>)
        \* antechamber
        with_antechamber == mol_descr["parameters"] = "antechamber"
        gaff_file == join(mol_dir, mol_id \o ".gaff.mol2")
        frcmod_file == join(mol_dir, mol_id \o ".frcmod")
        descr3 == IF with_antechamber
                  THEN update(descr2, [filepath |-> gaff_file, parameters |-> frcmod_file])
                  ELSE descr2
        files3 == IF with_antechamber
                  THEN update(files2, [f \in {gaff_file, frcmod_file} |->
                                          [antechamber |-> descr2["filepath"]]])
                  ELSE files2
        log3 == log2 \o (IF with_antechamber
                         THEN <<Event("run_antechamber", descr2["filepath"])>> ELSE <<>>)
    IN  IF skipped
        THEN [enabled |-> stop = "return", molecules |-> molecules, dirs |-> dirs,
              files |-> files, log |-> log]
        ELSE IF stop = "run_epik"
        THEN [enabled |-> with_epik, molecules |-> [molecules EXCEPT ![mol_id] = descr1],
              dirs |-> dirs \cup {mol_dir}, files |-> files1, log |-> log2]
        ELSE IF stop = "run_antechamber"
        THEN [enabled |-> with_antechamber, molecules |-> [molecules EXCEPT ![mol_id] = descr2],
              dirs |-> dirs \cup {mol_dir}, files |-> files2, log |-> log3]
        ELSE [enabled |-> TRUE, molecules |-> [molecules EXCEPT ![mol_id] = descr3],
              dirs |-> dirs \cup {mol_dir}, files |-> files3, log |-> log3]

save_molecule ==
    /\ pc = "save_molecule"
    /\ \E stop \in {"return", "run_epik", "run_antechamber"} :
         LET effect == save_molecule_effect(args[mol_idx], stop)
         IN  /\ effect.enabled
             /\ molecules' = effect.molecules
             /\ dirs' = effect.dirs
             /\ files' = effect.files
             /\ log' = effect.log
             /\ IF stop = "return"
                THEN /\ error' = error
                     /\ IF mol_idx < Len(args)
                        THEN mol_idx' = mol_idx + 1 /\ pc' = pc
                        ELSE mol_idx' = mol_idx /\ pc' = "tleap"
                ELSE /\ Raise(ExternalError(stop))
                     /\ mol_idx' = mol_idx
    /\ UNCHANGED <<yaml_content, geometry, options, experiments, solvents, dict_order, oe_molecules, fixed_pos_cache, k, resume, system_dir,
                   fixed_pos, molecule, openeye, overlapping>>

\* the rest of _setup_system: the tleap script loads the parameters and the
\* file of the receptor and of the ligand, is saved in the system directory
\* and run; tleap can fail
tleap ==
    /\ pc = "tleap"
    /\ LET script == join(system_dir_now, "leap.in")
           groups == [group_name \in {"receptor", "ligand"} |->
                         LET group == molecules[components_of(k)[group_name]]
                         IN  [parameters |-> group["parameters"],
                              filepath |-> group["filepath"]]]
           outputs == {join(system_dir_now, f) :
                          f \in {"complex.prmtop", "complex.pdb", "solvent.prmtop", "solvent.pdb"}}
       IN  /\ log' = log \o <<Event("export_script", script), Event("tleap.run", system_dir_now)>>
           /\ \/ /\ files' = update(files, [f \in {script} \cup outputs |-> [leap |-> groups]])
                 /\ system_dir' = system_dir_now
                 /\ pc' = "prepare_amber"
                 /\ error' = error
              \/ /\ files' = update(files, [f \in {script} |-> [leap |-> groups]])
                 /\ Raise(ExternalError("tleap.run"))
                 /\ UNCHANGED system_dir
    /\ UNCHANGED <<yaml_content, geometry, options, experiments, solvents, dict_order, molecules, oe_molecules, fixed_pos_cache,
                   dirs, k, resume, fixed_pos, molecule, mol_idx, openeye, overlapping>>

\* back in _run_experiment: the residue name of the ligand is read from its
\* file (a KeyError without a filepath) and the system is prepared
prepare_amber ==
    /\ pc = "prepare_amber"
    /\ LET ligand == molecules[components_of(k).ligand]
       IN  IF "filepath" \notin DOMAIN ligand
           THEN /\ Raise([type |-> "KeyError", where |-> "filepath", exp |-> k])
                /\ log' = log
           ELSE /\ log' = log \o <<Event("get_mol2_resname", ligand["filepath"]),
                                   Event("prepare_amber", system_dir)>>
                /\ \/ pc' = "yank_create" /\ error' = error
                   \/ Raise(ExternalError("prepare_amber"))
    /\ UNCHANGED <<yaml_content, geometry, options, experiments, solvents, dict_order, molecules, oe_molecules, fixed_pos_cache,
                   dirs, files, k, resume, system_dir, fixed_pos, molecule, mol_idx, openeye,
                   overlapping>>

\* yank.create(...), which can fail
yank_create ==
    /\ pc = "yank_create"
    /\ log' = Append(log, Event("yank.create", results_dir_of(k)))
    /\ \/ pc' = "yank_run" /\ error' = error
       \/ Raise(ExternalError("yank.create"))
    /\ UNCHANGED <<yaml_content, geometry, options, experiments, solvents, dict_order, molecules, oe_molecules, fixed_pos_cache,
                   dirs, files, k, resume, system_dir, fixed_pos, molecule, mol_idx, openeye,
                   overlapping>>

(***************************************************************************)
(* build_experiment.                                                       *)
(***************************************************************************)
Next ==
    \/ check_setup_resume
    \/ run_experiment
    \/ yank_resume
    \/ generate_yaml
    \/ setup_system
    \/ setup_molecules
    \/ fixed_positions
    \/ remove_overlap_loop
    \/ save_molecule
    \/ tleap
    \/ prepare_amber
    \/ yank_create
    \/ yank_run

Spec == Init /\ [][Next]_vars

(***************************************************************************)
(* __init__: _parse_molecules and _parse_solvents.  Each has a             *)
(* specification of its own, which starts from a molecules or solvents     *)
(* section whose entries have fields of the template only (the ones        *)
(* utils.validate_parameters lets through) and visits the entries in the   *)
(* order of the dictionary.                                                *)
(***************************************************************************)
\* largest number of entries of the molecules or solvents section
MaxEntries == 2

\* the orders in which the keys of a dictionary can be visited
Orders(keys) ==
    {order \in [1..Cardinality(keys) -> keys] : {order[i] : i \in DOMAIN order} = keys}

\* the build does not start in these specifications
ParseInit ==
    /\ NoGeometry
    /\ options = DEFAULT_OPTIONS
    /\ experiments = <<>>
    /\ oe_molecules = {}
    /\ fixed_pos_cache = {}
    /\ dirs = {}
    /\ files = EmptyDict
    /\ k = 1
    /\ resume = FALSE
    /\ system_dir = "none"
    /\ fixed_pos = {}
    /\ molecule = "none"
    /\ mol_idx = 1
    /\ openeye = "unknown"
    /\ overlapping = "unknown"
    /\ error = NoError
    /\ log = <<>>

ParseError(where, what, id) ==
    [type |-> "YamlParseError", where |-> where, what |-> what, id |-> id, exp |-> k]

\* err_msg of the first entry, in the order of the dictionary, that has one
first_error(order, err_msgs) ==
    LET failing == {i \in DOMAIN order : err_msgs[order[i]] # ""}
    IN  IF failing = {} THEN [what |-> "", id |-> ""]
        ELSE LET first == CHOOSE i \in failing : \A j \in failing : i <= j
             IN  [what |-> err_msgs[order[first]], id |-> order[first]]

\* paths are sequences of characters here
last_index(path, char) ==
    LET found == {i \in 1..Len(path) : path[i] = char}
    IN  IF found = {} THEN 0 ELSE CHOOSE i \in found : \A j \in found : j <= i

\* os.path.splitext(path)[1][1:]: what follows the last dot of the last
\* component of the path, unless that component has only leading dots
extension(path) ==
    LET sep == last_index(path, "/")
        dot == last_index(path, ".")
    IN  IF dot > sep /\ \E i \in sep + 1 .. dot - 1 : path[i] # "."
        THEN SubSeq(path, dot + 1, Len(path))
        ELSE <<>>

file_formats == {<<"m", "o", "l", "2">>, <<"p", "d", "b">>}
sources == {"filepath", "name", "smiles"}

FilePaths ==
    {<<"l", ".", "m", "o", "l", "2">>, <<"l", ".", "p", "d", "b">>,
     <<"l", ".", "s", "d", "f">>, <<"d", ".", "p", "d", "b", "/", "l">>}

\* the entries a molecules section can have
MoleculeDescriptors ==
    UNION {[fields -> {"str"}] : fields \in SUBSET {"name", "smiles", "parameters"}}
      \cup UNION {{update(descr, [filepath |-> path]) : path \in FilePaths,
                       descr \in [fields -> {"str"}]} :
                     fields \in SUBSET {"name", "smiles", "parameters"}}

MoleculeIds == {"m1", "m2", "m3"}

Tables(ids, descriptors) ==
    UNION {[keys -> descriptors] :
               keys \in {K \in SUBSET ids : K # {} /\ Cardinality(K) <= MaxEntries}}

molecule_err_msg_some_source(molecule_descr) ==
    LET fields == DOMAIN molecule_descr
        specified_sources == sources \cap fields
        source_msg ==
            IF Cardinality(specified_sources) > 1
            THEN "need only one between sources"
            ELSE IF "filepath" \in specified_sources
                    /\ extension(molecule_descr["filepath"]) \notin file_formats
            THEN "only mol2, pdb files supported"
            ELSE ""
    IN  IF "parameters" \notin fields THEN "no parameters specified" ELSE source_msg

\* err_msg at the end of the body of the second loop of _parse_molecules
molecule_err_msg(molecule_descr) ==
    LET fields == DOMAIN molecule_descr
        specified_sources == sources \cap fields
        source_msg ==
            IF specified_sources = {} \/ Cardinality(specified_sources) > 1
            THEN "need only one between sources"
            ELSE IF "filepath" \in specified_sources
                    /\ extension(molecule_descr["filepath"]) \notin file_formats
            THEN "only mol2, pdb files supported"
            ELSE ""
    IN  IF "parameters" \notin fields THEN "no parameters specified" ELSE source_msg

\* _parse_molecules: the first molecule that has an error is reported
parse_molecules ==
    /\ pc = "parse_molecules"
    /\ LET err == first_error(dict_order, [id \in DOMAIN molecules |->
                                                molecule_err_msg(molecules[id])])
       IN  IF err.what # ""
           THEN Raise(ParseError("parse_molecules", err.what, err.id))
           ELSE pc' = "molecules_parsed" /\ error' = error
    /\ UNCHANGED <<yaml_content, geometry, options, experiments, solvents, dict_order, molecules, oe_molecules,
                   fixed_pos_cache, dirs, files, k, resume, system_dir, fixed_pos,
                   molecule, mol_idx, openeye, overlapping, log>>

InitMolecules ==
    /\ yaml_content = [section \in {} |-> {}]
    /\ molecules \in Tables(MoleculeIds, MoleculeDescriptors)
    /\ dict_order \in Orders(DOMAIN molecules)
    /\ solvents = EmptyDict
    /\ pc = "parse_molecules"
    /\ ParseInit

SpecMolecules == InitMolecules /\ [][parse_molecules]_vars

\* the entries a solvents section can have after the conversion of the
\* names of nonbondedMethod and implicitSolvent
SolventDescriptors ==
    LET others == {"nonbondedCutoff", "implicitSolvent", "clearance"}
    IN  UNION {[fields -> {"value"}] : fields \in SUBSET others}
          \cup UNION {{update(descr, [nonbondedMethod |-> method]) :
                           method \in {"NoCutoff", "PME", "CutoffNonPeriodic"},
                           descr \in [fields -> {"value"}]} :
                         fields \in SUBSET others}

SolventIds == {"s1", "s2", "s3"}

solvent_err_msg_cutoff_as_clearance(solvent) ==
    IF "nonbondedMethod" \notin DOMAIN solvent
    THEN "must specify nonbondedMethod"
    ELSE IF solvent["nonbondedMethod"] = "NoCutoff"
    THEN IF "nonbondedCutoff" \in DOMAIN solvent
         THEN "specify both nonbondedMethod: NoCutoff and nonbondedCutoff"
         ELSE ""
    ELSE IF "implicitSolvent" \in DOMAIN solvent
    THEN "specify both nonbondedMethod and implicitSolvent"
    ELSE IF "nonbondedCutoff" \notin DOMAIN solvent
    THEN "uses explicit solvent but no clearance specified"
    ELSE ""

\* err_msg at the end of the body of the second loop of _parse_solvents
solvent_err_msg(solvent) ==
    IF "nonbondedMethod" \notin DOMAIN solvent
    THEN "must specify nonbondedMethod"
    ELSE IF solvent["nonbondedMethod"] = "NoCutoff"
    THEN IF "nonbondedCutoff" \in DOMAIN solvent
         THEN "specify both nonbondedMethod: NoCutoff and nonbondedCutoff"
         ELSE ""
    ELSE IF "implicitSolvent" \in DOMAIN solvent
    THEN "specify both nonbondedMethod and implicitSolvent"
    ELSE IF "clearance" \notin DOMAIN solvent
    THEN "uses explicit solvent but no clearance specified"
    ELSE ""

\* _parse_solvents: the first solvent that has an error is reported
parse_solvents ==
    /\ pc = "parse_solvents"
    /\ LET err == first_error(dict_order, [id \in DOMAIN solvents |->
                                                solvent_err_msg(solvents[id])])
       IN  IF err.what # ""
           THEN Raise(ParseError("parse_solvents", err.what, err.id))
           ELSE pc' = "solvents_parsed" /\ error' = error
    /\ UNCHANGED <<yaml_content, geometry, options, experiments, solvents, dict_order, molecules, oe_molecules,
                   fixed_pos_cache, dirs, files, k, resume, system_dir, fixed_pos,
                   molecule, mol_idx, openeye, overlapping, log>>

InitSolvents ==
    /\ yaml_content = [section \in {} |-> {}]
    /\ solvents \in Tables(SolventIds, SolventDescriptors)
    /\ dict_order \in Orders(DOMAIN solvents)
    /\ molecules = EmptyDict
    /\ pc = "parse_solvents"
    /\ ParseInit

SpecSolvents == InitSolvents /\ [][parse_solvents]_vars

(***************************************************************************)
(* __init__: _parse_experiments.  The documents have an experiments        *)
(* section that names experiment blocks of the document, a single          *)
(* experiment block, both or none; the blocks have no leaf with several    *)
(* alternatives, so that each expands to one combination with an empty     *)
(* name, and no options.                                                   *)
(***************************************************************************)
\* os.path.join(a, b) for relative paths
os_path_join(a, b) == IF a = "" THEN b ELSE a \o "/" \o b

GroupNames == {"g1", "g2", "g3"}

components_template == {"receptor", "ligand", "solvent"}
experiment_template == {"components", "options"}

\* the components blocks: the ids are of the tables or not, and at most one
\* thing is wrong with a block (an id that is missing or unknown, or a key
\* that is not of the template)
ComponentBlocks ==
    LET ids == [receptor |-> {"rec", "nomol"}, ligand |-> {"lig", "nomol"},
                solvent |-> {"pme", "nosolv"}, box |-> {"cubic"}]
        blocks == UNION {{c \in [keys -> {"rec", "lig", "pme", "nomol", "nosolv", "cubic"}] :
                              \A key \in keys : c[key] \in ids[key]} :
                           keys \in SUBSET (components_template \cup {"box"})}
        wrong(c) == (components_template \ DOMAIN c)
                      \cup {key \in DOMAIN c : c[key] \in {"nomol", "nosolv", "cubic"}}
    IN  {c \in blocks : Cardinality(wrong(c)) <= 1}

GoodComponents == [receptor |-> "rec", ligand |-> "lig", solvent |-> "pme"]

\* the experiment blocks: one with a components block, one without, and one
\* with a key that is not of the template
ExperimentBlocks ==
    {[components |-> c] : c \in ComponentBlocks}
      \cup {[options |-> EmptyDict]}
      \cup {[components |-> GoodComponents, restraints |-> "harmonic"]}

\* the documents, as far as _parse_experiments reads them
Documents ==
    LET sections == {[section \in {} |-> {}]}
                      \cup {[experiments |-> names] :
                               names \in {N \in SUBSET GroupNames :
                                            N # {} /\ Cardinality(N) <= MaxExperiments}}
        blocks == UNION {[names -> ExperimentBlocks] :
                            names \in {N \in SUBSET GroupNames :
                                         Cardinality(N) <= MaxExperiments}}
        single == {[section \in {} |-> {}]}
                    \cup {[experiment |-> block] : block \in ExperimentBlocks}
    IN  {update(update(s, b), e) : s \in sections, b \in blocks, e \in single}

\* lines 299-306: self._experiments, as the blocks by name.  A name of the
\* experiments section that is no key of the document raises the same
\* KeyError as a document without the section does, and the handler takes
\* the experiment block, or nothing when there is none
experiments_of(document) ==
    IF "experiments" \in DOMAIN document
          /\ \A exp_name \in document["experiments"] : exp_name \in DOMAIN document
    THEN [exp_name \in document["experiments"] |-> document[exp_name]]
    ELSE IF "experiment" \in DOMAIN document
    THEN [exp_name \in {"experiment"} |-> document["experiment"]]
    ELSE EmptyDict

\* _expand_experiments over self._experiments visited in the given order:
\* the name of the group is the output directory when there are several
expand_groups(groups, order) ==
    [i \in 1..Len(order) |->
        [path |-> os_path_join(IF Len(order) > 1 THEN order[i] ELSE "", ""),
         combination |-> groups[order[i]]]]

\* the first part of _parse_experiments
parse_experiments_section ==
    /\ pc = "parse_experiments_section"
    /\ \E order \in Orders(DOMAIN experiments_of(yaml_content)) :
         /\ dict_order' = order
         /\ experiments' = expand_groups(experiments_of(yaml_content), order)
         /\ pc' = IF order = <<>> THEN "experiments_parsed" ELSE "parse_experiments"
    /\ UNCHANGED <<yaml_content, geometry, options, solvents, molecules, oe_molecules,
                   fixed_pos_cache, dirs, files, k, resume, system_dir, fixed_pos,
                   molecule, mol_idx, openeye, overlapping, error, log>>

\* utils.validate_parameters(parameters, template, check_unknown=True), as
\* far as it matters here: the message of the error it raises, which cannot
\* name the experiment, as the function is not given it
validate_parameters_error(parameters, template) ==
    IF DOMAIN parameters \subseteq template THEN "" ELSE "found unknown parameter"

\* the body of the loop of _parse_experiments for one combination: the
\* exception it raises, NoError when it raises none
parse_experiment_error(exp_name, exp) ==
    IF "components" \notin DOMAIN exp
    THEN ParseError("parse_experiments", "Cannot find components", exp_name)
    ELSE LET components == exp["components"]
             identified(component, table) ==
                 \* components[component] not in table
                 components[component] \in DOMAIN table
             key_error == [type |-> "KeyError", where |-> "parse_experiments", exp |-> k]
         IN  IF validate_parameters_error(exp, experiment_template) # ""
             THEN ParseError("parse_experiments",
                             validate_parameters_error(exp, experiment_template), "")
             ELSE IF validate_parameters_error(components, components_template) # ""
             THEN ParseError("parse_experiments",
                             validate_parameters_error(components, components_template), "")
             ELSE IF "receptor" \notin DOMAIN components THEN key_error
             ELSE IF ~identified("receptor", molecules)
             THEN ParseError("parse_experiments", "Cannot identify receptor", exp_name)
             ELSE IF "ligand" \notin DOMAIN components THEN key_error
             ELSE IF ~identified("ligand", molecules)
             THEN ParseError("parse_experiments", "Cannot identify ligand", exp_name)
             ELSE IF "solvent" \notin DOMAIN components THEN key_error
             ELSE IF ~identified("solvent", solvents)
             THEN ParseError("parse_experiments", "Cannot identify solvent", exp_name)
             ELSE NoError

\* exp_name in _parse_experiments
parsed_exp_name(i) == IF experiments[i].path = "" THEN "experiment" ELSE experiments[i].path

\* the loop of _parse_experiments, one combination a step
parse_experiments ==
    /\ pc = "parse_experiments"
    /\ LET e == parse_experiment_error(parsed_exp_name(k), experiments[k].combination)
       IN  IF e # NoError
           THEN Raise(e) /\ k' = k
           ELSE /\ error' = error
                /\ IF k < Len(experiments)
                   THEN pc' = pc /\ k' = k + 1
                   ELSE pc' = "experiments_parsed" /\ k' = k
    /\ UNCHANGED <<yaml_content, geometry, options, experiments, solvents, dict_order,
                   molecules, oe_molecules, fixed_pos_cache, dirs, files, resume,
                   system_dir, fixed_pos, molecule, mol_idx, openeye, overlapping, log>>

InitExperiments ==
    /\ yaml_content \in Documents
    /\ molecules = MoleculeTable
    /\ solvents = SolventTable
    /\ dict_order = <<>>
    /\ pc = "parse_experiments_section"
    /\ ParseInit

NextExperiments == parse_experiments_section \/ parse_experiments

SpecExperiments == InitExperiments /\ [][NextExperiments]_vars

(***************************************************************************)
(* compute_min_dist and remove_overlap.  Positions are arrays of points of *)
(* a plane lattice, one row an atom; distances are kept squared, and the   *)
(* random rotations and displacements are the ones that keep the molecule  *)
(* on the lattice and in the box.                                          *)
(***************************************************************************)
\* largest number of groups of fixed positions
MaxGroups == 2
\* the count of the iterations of the loop stops here
MaxIterations == 2

Box == (0..2) \X (0..2)

\* the squared distance of two points
distance2(p, q) == (p[1] - q[1]) * (p[1] - q[1]) + (p[2] - q[2]) * (p[2] - q[2])

minimum(numbers) == CHOOSE m \in numbers : \A n \in numbers : m <= n

\* the smallest entry of distances2 for one group pos1
closest2(mol_pos, pos1) ==
    minimum({distance2(pos1[i], mol_pos[j]) : i \in DOMAIN pos1, j \in DOMAIN mol_pos})

compute_min_dist2_last_group(mol_pos, groups) ==
    closest2(mol_pos, groups[Len(groups)])

\* compute_min_dist(mol_positions, *args), squared: the smallest distance
\* between an atom of mol_positions and an atom of a group of args, found
\* group by group
RECURSIVE compute_min_dist2(_, _)
compute_min_dist2(mol_pos, groups) ==
    IF Len(groups) = 1 THEN closest2(mol_pos, groups[1])
    ELSE LET min_dist == compute_min_dist2(mol_pos, SubSeq(groups, 1, Len(groups) - 1))
             last == closest2(mol_pos, groups[Len(groups)])
         IN  IF last < min_dist THEN last ELSE min_dist

\* min_distance=1.0, the value _setup_molecules passes and the default
min_distance == 1

\* an array: which array it is, and its rows
array(name, rows) == [array |-> name, rows |-> rows]

\* np.copy(mol_positions)
np_copy(rows) == array("copy", rows)

\* x.mean(0) for a molecule whose centre is a point of the lattice
mean(rows) ==
    <<(rows[1][1] + rows[Len(rows)][1]) \div 2, (rows[1][2] + rows[Len(rows)][2]) \div 2>>

\* the rotations: quarter turns in the plane, about x0
Quaternions == 0..3

RECURSIVE rotate(_, _, _)
rotate(point, x0, q) ==
    IF q = 0 THEN point
    ELSE rotate(<<x0[1] - (point[2] - x0[2]), x0[2] + (point[1] - x0[1])>>, x0, q - 1)

\* x = ((Rq * np.matrix(x - x0).T).T + x0).A, a new array
rotated(rows, q) == array("rotated", [i \in DOMAIN rows |-> rotate(rows[i], mean(rows), q)])

\* the displacements np.random.randn(3) can give
Displacements == (-2..2) \X (-2..2)

\* x += sigma * displacement, in place
displaced(arr, scale, displacement) ==
    array(arr.array, [i \in DOMAIN arr.rows |->
                         <<arr.rows[i][1] + scale * displacement[1],
                           arr.rows[i][2] + scale * displacement[2]>>])

in_box(rows) == \A i \in DOMAIN rows : rows[i] \in Box

loop_condition_do_while == iterations = 0 \/ compute_min_dist2(x.rows, fixed_groups) <= min_distance * min_distance

loop_condition_capped ==
    /\ compute_min_dist2(x.rows, fixed_groups) <= min_distance * min_distance
    /\ iterations < MaxIterations

\* while compute_min_dist(x, *args) <= min_distance
loop_condition == compute_min_dist2(x.rows, fixed_groups) <= min_distance * min_distance

\* the first statements of remove_overlap
remove_overlap_entry ==
    /\ pc = "remove_overlap_entry"
    /\ x' = np_copy(mol_positions)
    /\ iterations' = 0
    /\ pc' = "while"
    /\ UNCHANGED <<mol_positions, fixed_groups, sigma, oe_positions, file_positions>>

\* the arrays one turn of the loop can leave in x: a random rotation about
\* the centre, then a random displacement
draws ==
    {moved \in {displaced(rotated(x.rows, q), sigma, displacement) :
                   q \in Quaternions, displacement \in Displacements} :
        in_box(moved.rows)}

\* the body of the loop, its draws giving one of outcomes; an in-place
\* change of an array changes the caller's array when it is that array
remove_overlap_draw(outcomes) ==
    /\ pc = "while"
    /\ loop_condition
    /\ \E moved \in outcomes :
         /\ x' = moved
         /\ mol_positions' = IF moved.array = "mol_positions" THEN moved.rows
                             ELSE mol_positions
    /\ iterations' = IF iterations < MaxIterations THEN iterations + 1 ELSE iterations
    /\ pc' = "while"
    /\ UNCHANGED <<fixed_groups, sigma, oe_positions, file_positions>>

remove_overlap_body == remove_overlap_draw(draws)

\* return x
remove_overlap_return ==
    /\ pc = "while"
    /\ ~loop_condition
    /\ pc' = "remove_overlap_returned"
    /\ UNCHANGED geometry

\* the variables of the builder, which the resolver does not touch
builder == <<yaml_content, options, experiments, molecules, solvents, dict_order,
             oe_molecules, fixed_pos_cache, dirs, files, k, resume, system_dir, fixed_pos,
             molecule, mol_idx, openeye, overlapping, error, log>>

\* the shapes of the molecules: one atom, or two atoms two apart, in either
\* order of the rows
Molecules ==
    {rows \in (Box \X Box) \cup {<<p>> : p \in Box} :
        Len(rows) = 2 => distance2(rows[1], rows[2]) = 4}

\* the fixed groups: one atom on the diagonal of the box, or two atoms
\* side by side in its top row
FixedGroups ==
    {<<p>> : p \in {q \in Box : q[1] = q[2]}}
      \cup {rows \in Box \X Box : rows[1][2] = 2 /\ rows[2] = <<rows[1][1] + 1, 2>>}

NoBuild ==
    /\ yaml_content = [section \in {} |-> {}]
    /\ options = DEFAULT_OPTIONS
    /\ experiments = <<>>
    /\ molecules = EmptyDict
    /\ solvents = EmptyDict
    /\ dict_order = <<>>
    /\ oe_molecules = {}
    /\ fixed_pos_cache = {}
    /\ dirs = {}
    /\ files = EmptyDict
    /\ k = 1
    /\ resume = FALSE
    /\ system_dir = "none"
    /\ fixed_pos = {}
    /\ molecule = "none"
    /\ mol_idx = 1
    /\ openeye = "unknown"
    /\ overlapping = "unknown"
    /\ error = NoError
    /\ log = <<>>

\* remove_overlap is called
InitOverlap ==
    /\ mol_positions \in Molecules
    /\ fixed_groups \in UNION {[1..n -> FixedGroups] : n \in 1..MaxGroups}
    /\ sigma \in {0, 1}
    /\ x = <<>>
    /\ iterations = 0
    /\ oe_positions = [id \in {} |-> <<>>]
    /\ file_positions = [id \in {} |-> <<>>]
    /\ pc = "remove_overlap_entry"
    /\ NoBuild

NextOverlap ==
    \/ remove_overlap_entry /\ UNCHANGED builder
    \/ remove_overlap_body /\ UNCHANGED builder
    \/ remove_overlap_return /\ UNCHANGED builder

SpecOverlap == InitOverlap /\ [][NextOverlap]_vars

\* the function keeps running, and at every turn of the loop each of the
\* draws has a positive probability: a draw that ends the loop is not
\* possible for ever without being made.  That draw ends its own
\* possibility, so weak fairness of it is the last conjunct
SpecOverlapFair ==
    /\ SpecOverlap
    /\ WF_vars(remove_overlap_entry /\ UNCHANGED builder)
    /\ WF_vars(remove_overlap_return /\ UNCHANGED builder)
    /\ []<>~(/\ pc = "while"
              /\ loop_condition
              /\ \E moved \in draws :
                    compute_min_dist2(moved.rows, fixed_groups)
                        > min_distance * min_distance)

(***************************************************************************)
(* The positions in _setup_molecules: the molecules of one system after    *)
(* another are generated, read and placed.  fixed_pos and _fixed_pos_cache *)
(* are the dictionaries from molecule ids to positions, oe_positions holds *)
(* the positions of the molecules of _oe_molecules and file_positions the  *)
(* positions in the files of the molecules read from files.                *)
(***************************************************************************)
NoPositions == [mol_id \in {} |-> <<>>]

\* the positions OpenEye gives a molecule it generates: one atom on the
\* diagonal of the box, or two atoms with the first in a corner
Conformers ==
    {rows \in Molecules : IF Len(rows) = 1 THEN rows[1][1] = rows[1][2]
                                           ELSE rows[1] = <<0, 2>>}

\* the positions in the files: any group for the receptor, one atom for
\* the ligand
FilePositions ==
    {positions \in [{"rec", "lig"} -> FixedGroups] : Len(positions["lig"]) = 1}

\* fixed_pos.values(), in some order
IdOrder == <<"rec", "lig", "gen", "smi">>
values(d) ==
    LET ids == SelectSeq(IdOrder, LAMBDA mol_id : mol_id \in DOMAIN d)
    IN  [i \in 1..Len(ids) |-> d[ids[i]]]

\* compute_min_dist(posi, *positions[i+1:]) < 0.1 for some i: on the lattice
\* a distance below 0.1 is a distance of 0
fixed_overlap(positions) ==
    \E a, b \in DOMAIN positions :
        a # b /\ compute_min_dist2(positions[a], <<positions[b]>>) = 0

\* the first half of _setup_molecules for system k: the missing molecules
\* are generated, the positions of the molecules given as files are read or
\* taken from the cache, and checked for overlapping atoms
setup_molecules_positions ==
    /\ pc = "setup_molecules_positions"
    /\ LET to_generate == {mol_id \in arg_ids : mol_id \notin file_mol_ids
                                                /\ mol_id \notin oe_molecules}
           positions == [mol_id \in file_mol_ids |->
                            IF mol_id \in DOMAIN fixed_pos_cache
                            THEN fixed_pos_cache[mol_id]
                            ELSE file_positions[mol_id]]
       IN  /\ oe_molecules' = oe_molecules \cup to_generate
           /\ \E generated \in [to_generate -> Conformers] :
                 oe_positions' = update(oe_positions, generated)
           /\ IF fixed_overlap(positions)
              THEN /\ Raise(YamlParseError("setup_molecules",
                                "The given molecules have overlapping atoms!", "", ""))
                   /\ UNCHANGED <<fixed_pos, fixed_pos_cache>>
              ELSE /\ fixed_pos' = positions
                   /\ fixed_pos_cache' = update(fixed_pos_cache, positions)
                   /\ pc' = "for_mol_id"
                   /\ error' = error
    /\ mol_idx' = 1
    /\ UNCHANGED <<yaml_content, mol_positions, fixed_groups, sigma, x, iterations,
                   file_positions, options, experiments, molecules, solvents, dict_order,
                   dirs, files, k, resume, system_dir, molecule, openeye, overlapping, log>>

fixed_pos_unchanged(fixed, mol_id, molecule_pos) == fixed

\* fixed_pos[mol_id] = molecule_pos
fixed_pos_updated(fixed, mol_id, molecule_pos) ==
    update(fixed, [id \in {mol_id} |-> molecule_pos])

\* one turn of the loop that places the generated molecules, up to the call
\* of remove_overlap: a molecule that was not generated is passed over, and
\* without fixed positions the molecule stays where it is
for_mol_id ==
    /\ pc = "for_mol_id"
    /\ mol_idx <= Len(args)
    /\ LET mol_id == args[mol_idx]
       IN  IF mol_id \notin oe_molecules
           THEN /\ mol_idx' = mol_idx + 1
                /\ pc' = pc
                /\ UNCHANGED <<mol_positions, fixed_groups, sigma, fixed_pos>>
           ELSE IF DOMAIN fixed_pos # {}
           THEN /\ mol_positions' = oe_positions[mol_id]
                /\ fixed_groups' = values(fixed_pos)
                /\ sigma' = 1
                /\ pc' = "remove_overlap_entry"
                /\ UNCHANGED <<mol_idx, fixed_pos>>
           ELSE /\ fixed_pos' = fixed_pos_updated(fixed_pos, mol_id, oe_positions[mol_id])
                /\ mol_idx' = mol_idx + 1
                /\ pc' = pc
                /\ UNCHANGED <<mol_positions, fixed_groups, sigma>>
    /\ UNCHANGED <<yaml_content, x, iterations, oe_positions, file_positions, options,
                   experiments, molecules, solvents, dict_order, oe_molecules,
                   fixed_pos_cache, dirs, files, k, resume, system_dir, molecule, openeye,
                   overlapping, error, log>>

\* remove_overlap has returned: the positions of the molecule are set and
\* become fixed for the next round; the arrays of the call are gone
set_oe_mol_positions ==
    /\ pc = "remove_overlap_returned"
    /\ LET mol_id == args[mol_idx]
       IN  /\ oe_positions' = update(oe_positions, [id \in {mol_id} |-> x.rows])
           /\ fixed_pos' = fixed_pos_updated(fixed_pos, mol_id, x.rows)
    /\ mol_idx' = mol_idx + 1
    /\ pc' = "for_mol_id"
    /\ mol_positions' = <<>>
    /\ fixed_groups' = <<>>
    /\ x' = <<>>
    /\ UNCHANGED <<yaml_content, sigma, iterations, file_positions, options, experiments, molecules, solvents, dict_order,
                   oe_molecules, fixed_pos_cache, dirs, files, k, resume, system_dir,
                   molecule, openeye, overlapping, error, log>>

\* the loop is over; the rest of _setup_molecules gives every generated
\* molecule of the system its file and _setup_molecules returns
setup_molecules_return ==
    /\ pc = "for_mol_id"
    /\ mol_idx > Len(args)
    /\ molecules' = [mol_id \in DOMAIN molecules |->
                        IF mol_id \in arg_ids \cap oe_molecules
                        THEN update(molecules[mol_id],
                                    [filepath |-> join(get_molecule_setup_dir(
                                                           options["output_dir"], mol_id),
                                                       mol_id \o ".mol2")])
                        ELSE molecules[mol_id]]
    /\ pc' = "setup_molecules_returned"
    /\ UNCHANGED <<yaml_content, geometry, options, experiments, solvents, dict_order,
                   oe_molecules, fixed_pos_cache, dirs, files, k, resume, system_dir,
                   fixed_pos, molecule, mol_idx, openeye, overlapping, error, log>>

\* the molecules of the next system are set up
next_system ==
    /\ pc = "setup_molecules_returned"
    /\ k < Len(experiments)
    /\ k' = k + 1
    /\ pc' = "setup_molecules_positions"
    /\ UNCHANGED <<yaml_content, geometry, options, experiments, molecules, solvents,
                   dict_order, oe_molecules, fixed_pos_cache, dirs, files, resume,
                   system_dir, fixed_pos, molecule, mol_idx, openeye, overlapping, error,
                   log>>

\* what remove_overlap leaves alone, called from _setup_molecules
caller == <<yaml_content, options, experiments, molecules, solvents, dict_order, oe_molecules,
            fixed_pos_cache, dirs, files, k, resume, system_dir, fixed_pos, molecule,
            mol_idx, openeye, overlapping, error, log>>

\* the systems: a receptor and a ligand in the solvent
Systems ==
    {[path |-> "",
      combination |-> [components |-> [receptor |-> receptor_id, ligand |-> ligand_id,
                                       solvent |-> "pme"]]] :
        receptor_id \in LeafValues.receptor, ligand_id \in LeafValues.ligand}

InitPlacement ==
    /\ yaml_content = [section \in {} |-> {}]
    /\ mol_positions = <<>>
    /\ fixed_groups = <<>>
    /\ sigma = 0
    /\ x = <<>>
    /\ iterations = 0
    /\ oe_positions = NoPositions
    /\ file_positions \in FilePositions
    /\ options = DEFAULT_OPTIONS
    /\ experiments \in UNION {[1..n -> Systems] : n \in 1..MaxExperiments}
    /\ molecules = MoleculeTable
    /\ solvents = SolventTable
    /\ dict_order = <<>>
    /\ oe_molecules = {}
    /\ fixed_pos_cache = NoPositions
    /\ dirs = {}
    /\ files = EmptyDict
    /\ pc = "setup_molecules_positions"
    /\ k = 1
    /\ resume = FALSE
    /\ system_dir = "none"
    /\ fixed_pos = NoPositions
    /\ molecule = "none"
    /\ mol_idx = 1
    /\ openeye = "yes"
    /\ overlapping = "unknown"
    /\ error = NoError
    /\ log = <<>>

NextPlacement ==
    \/ setup_molecules_positions
    \/ for_mol_id
    \/ remove_overlap_entry /\ UNCHANGED caller
    \/ remove_overlap_body /\ UNCHANGED caller
    \/ remove_overlap_return /\ UNCHANGED caller
    \/ set_oe_mol_positions
    \/ setup_molecules_return
    \/ next_system

SpecPlacement == InitPlacement /\ [][NextPlacement]_vars

(***************************************************************************)
(* Two processes run build_experiment on the same output directory, each   *)
(* with its own builder: the file system is shared, everything else is     *)
(* per process.  One step is one look at or one change of the file system  *)
(* together with the calls up to the next one.  The output directory is    *)
(* empty at the start, so the pre-flight check of both processes passes.   *)
(* pc, k, resume, system_dir and error hold one value for each process.    *)
(***************************************************************************)
Procs == {"p1", "p2"}

ProcEvent(p, op, arg) == [op |-> op, arg |-> arg, exp |-> k[p], proc |-> p]

makedirs_exist_ok(directory, existing) == FALSE

\* os.makedirs(directory) raises OSError when the directory exists
makedirs_raises(directory, existing) == directory \in existing

proc_results_dir(p) == results_dir_of(k[p])

proc_system_dir(p) ==
    get_system_setup_dir(exp_opts_of(k[p])["output_dir"], components_of(k[p]).receptor,
                         components_of(k[p]).ligand, components_of(k[p]).solvent)

\* what a step of process p leaves alone, but for the variables it names
race_frame == <<yaml_content, geometry, options, experiments, molecules, solvents, dict_order,
                oe_molecules, fixed_pos_cache, fixed_pos, molecule, mol_idx, openeye,
                overlapping>>

proc_raise(p, e) ==
    /\ pc' = [pc EXCEPT ![p] = "failed"]
    /\ error' = [error EXCEPT ![p] = e]

\* if not os.path.isdir(results_dir)
proc_isdir(p) ==
    /\ pc[p] = "isdir"
    /\ resume' = [resume EXCEPT ![p] = proc_results_dir(p) \in dirs]
    /\ pc' = [pc EXCEPT ![p] = IF proc_results_dir(p) \in dirs THEN "yank_resume"
                                                                ELSE "makedirs"]
    /\ system_dir' = [system_dir EXCEPT ![p] = "none"]
    /\ UNCHANGED <<race_frame, dirs, files, k, error, log>>

\* os.makedirs(results_dir), the snapshot, and the start of _setup_system
proc_makedirs(p) ==
    /\ pc[p] = "makedirs"
    /\ IF makedirs_raises(proc_results_dir(p), dirs)
       THEN /\ proc_raise(p, [type |-> "OSError", directory |-> proc_results_dir(p)])
            /\ UNCHANGED <<dirs, log>>
       ELSE /\ dirs' = dirs \cup {proc_results_dir(p)}
            /\ log' = Append(log, ProcEvent(p, "makedirs", proc_results_dir(p)))
            /\ pc' = [pc EXCEPT ![p] = "exists_system"]
            /\ error' = error
    /\ UNCHANGED <<race_frame, files, k, resume, system_dir>>

\* yank.resume(), which can fail
proc_yank_resume(p) ==
    /\ pc[p] = "yank_resume"
    /\ log' = Append(log, ProcEvent(p, "yank.resume", proc_results_dir(p)))
    /\ \/ pc' = [pc EXCEPT ![p] = "yank_run"] /\ error' = error
       \/ proc_raise(p, [type |-> "Exception", directory |-> proc_results_dir(p)])
    /\ UNCHANGED <<race_frame, dirs, files, k, resume, system_dir>>

\* if os.path.exists(system_dir): return system_dir
proc_exists_system(p) ==
    /\ pc[p] = "exists_system"
    /\ IF exists(proc_system_dir(p), dirs)
       THEN /\ system_dir' = [system_dir EXCEPT ![p] = proc_system_dir(p)]
            /\ pc' = [pc EXCEPT ![p] = "yank_create"]
            /\ log' = Append(log, ProcEvent(p, "return system_dir", proc_system_dir(p)))
       ELSE /\ pc' = [pc EXCEPT ![p] = "makedirs_system"]
            /\ UNCHANGED <<system_dir, log>>
    /\ UNCHANGED <<race_frame, dirs, files, k, resume, error>>

\* os.makedirs(system_dir)
proc_makedirs_system(p) ==
    /\ pc[p] = "makedirs_system"
    /\ IF makedirs_raises(proc_system_dir(p), dirs)
       THEN /\ proc_raise(p, [type |-> "OSError", directory |-> proc_system_dir(p)])
            /\ UNCHANGED <<dirs, log>>
       ELSE /\ dirs' = dirs \cup {proc_system_dir(p)}
            /\ log' = Append(log, ProcEvent(p, "makedirs", proc_system_dir(p)))
            /\ pc' = [pc EXCEPT ![p] = "tleap"]
            /\ error' = error
    /\ UNCHANGED <<race_frame, files, k, resume, system_dir>>

\* the molecules are set up and tleap writes the files of the system
proc_tleap(p) ==
    /\ pc[p] = "tleap"
    /\ log' = Append(log, ProcEvent(p, "tleap.run", proc_system_dir(p)))
    /\ files' = update(files, [f \in {join(proc_system_dir(p), "complex.prmtop")} |->
                                  [leap |-> p]])
    /\ system_dir' = [system_dir EXCEPT ![p] = proc_system_dir(p)]
    /\ pc' = [pc EXCEPT ![p] = "yank_create"]
    /\ UNCHANGED <<race_frame, dirs, k, resume, error>>

\* yank.create(...) on the files of the system directory
proc_yank_create(p) ==
    /\ pc[p] = "yank_create"
    /\ log' = Append(log, ProcEvent(p, "yank.create", proc_results_dir(p)))
    /\ pc' = [pc EXCEPT ![p] = "yank_run"]
    /\ UNCHANGED <<race_frame, dirs, files, k, resume, system_dir, error>>

\* yank.run(), and on with the next combination
proc_yank_run(p) ==
    /\ pc[p] = "yank_run"
    /\ log' = Append(log, ProcEvent(p, "yank.run", proc_results_dir(p)))
    /\ IF k[p] < Len(experiments)
       THEN pc' = [pc EXCEPT ![p] = "isdir"] /\ k' = [k EXCEPT ![p] = k[p] + 1]
       ELSE pc' = [pc EXCEPT ![p] = "done"] /\ k' = k
    /\ UNCHANGED <<race_frame, dirs, files, resume, system_dir, error>>

\* the documents of the two processes: the molecules are given as files,
\* and the combinations differ in an option or not at all
RaceTrees ==
    {tree \in ExperimentTrees : tree.receptor = <<"rec">> /\ tree.ligand = <<"lig">>}

InitRace ==
    /\ yaml_content = [section \in {} |-> {}]
    /\ NoGeometry
    /\ options = DEFAULT_OPTIONS
    /\ \E tree \in RaceTrees : experiments = expand_experiments(tree)
    /\ molecules = MoleculeTable
    /\ solvents = SolventTable
    /\ dict_order = <<>>
    /\ oe_molecules = {}
    /\ fixed_pos_cache = {}
    /\ dirs = {}
    /\ files = EmptyDict
    /\ pc = [p \in Procs |-> "isdir"]
    /\ k = [p \in Procs |-> 1]
    /\ resume = [p \in Procs |-> FALSE]
    /\ system_dir = [p \in Procs |-> "none"]
    /\ fixed_pos = {}
    /\ molecule = "none"
    /\ mol_idx = 1
    /\ openeye = "unknown"
    /\ overlapping = "unknown"
    /\ error = [p \in Procs |-> NoError]
    /\ log = <<>>

NextRace ==
    \E p \in Procs :
        \/ proc_isdir(p)
        \/ proc_makedirs(p)
        \/ proc_yank_resume(p)
        \/ proc_exists_system(p)
        \/ proc_makedirs_system(p)
        \/ proc_tleap(p)
        \/ proc_yank_create(p)
        \/ proc_yank_run(p)

SpecRace == InitRace /\ [][NextRace]_vars

(***************************************************************************)
(* What the properties speak about.                                        *)
(***************************************************************************)
Indices == 1..Len(experiments)

\* the events of the log that satisfy a test
Events == {log[i] : i \in 1..Len(log)}

\* the directories this build created, and the ones that were there before
CreatedDirs == {e.arg : e \in {ev \in Events : ev.op = "makedirs"}}
InitialDirs == dirs \ CreatedDirs

\* the calls made for the combination at index i, in order
OpsOf(i) ==
    LET mine == SelectSeq(log, LAMBDA e : e.exp = i)
    IN  [j \in 1..Len(mine) |-> mine[j].op]

IsPrefix(s, t) == Len(s) <= Len(t) /\ s = SubSeq(t, 1, Len(s))

\* the directories of combination i that exist although the resume option
\* of their stage is off for that combination
SetupConflicts(i, existing) ==
    IF resume_setup_of(i) THEN {}
    ELSE {receptor_dir_of(i), ligand_dir_of(i), system_dir_of(i)} \cap existing
SimulationConflicts(i, existing) ==
    IF resume_simulation_of(i) THEN {} ELSE {experiment_dir_of(i)} \cap existing
Conflicts(i, existing) == SetupConflicts(i, existing) \cup SimulationConflicts(i, existing)

\* the pre-flight check raised its error at combination i
CheckFailedAt(i) ==
    /\ pc = "error"
    /\ error.type = "YamlParseError"
    /\ error.where = "check_setup_resume"
    /\ error.exp = i

\* the pre-flight check has examined combination i
Examined(i) ==
    \/ pc = "check_setup_resume" /\ i < k
    \/ pc = "error" /\ error.where = "check_setup_resume" /\ i <= error.exp
    \/ pc = "error" /\ error.where # "check_setup_resume"
    \/ pc \notin {"check_setup_resume", "error"}

(***************************************************************************)
(* C1: when some combination of the batch has a molecule, system or        *)
(* experiment directory that exists while the resume option of its stage   *)
(* is off, the build never gets past the pre-flight check: the check does  *)
(* not go beyond the first such combination, the only way on is the        *)
(* YamlParseError of the check, and in every state of such a build no      *)
(* directory was created, no file written and no external call made.       *)
(***************************************************************************)
C1_PreflightAbortsBeforeAnyStage ==
    \A i \in Indices :
        Conflicts(i, InitialDirs) # {} =>
            /\ pc \in {"check_setup_resume", "error"}
            /\ pc = "check_setup_resume" => k <= i
            /\ pc = "error" => \E j \in 1..i : CheckFailedAt(j)
            /\ log = <<>>
            /\ files = EmptyDict
            /\ CreatedDirs = {}
            /\ oe_molecules = {} /\ molecules = MoleculeTable

\* the check raised at the second combination, the first one being clean
C1_Witness ==
    /\ Len(experiments) = 2
    /\ CheckFailedAt(2)
    /\ Conflicts(1, InitialDirs) = {}
    /\ Conflicts(2, InitialDirs) # {}

ExistedBefore(i) ==
    results_dir_of(i) \in
        InitialDirs \cup {e.arg : e \in {ev \in Events : ev.op = "makedirs" /\ ev.exp < i}}

Started(i) == OpsOf(i) # <<>>

\* _run_experiment returned for combination i
Finished(i) == i < k \/ (pc = "done" /\ i <= k)

snapshot_of(i) == join(results_dir_of(i), exp_name_of(i) \o ".yaml")

(***************************************************************************)
(* C3: an experiment whose directory exists when its turn comes is         *)
(* resumed: the only calls made for it are the construction of the Yank    *)
(* object, yank.resume() and then yank.run(), so that no directory is      *)
(* created, no snapshot is written, the system and molecule stages are not *)
(* entered and no run is created.  An experiment whose directory did not   *)
(* exist is never resumed.                                                 *)
(***************************************************************************)
C3_ExistingExperimentIsResumed ==
    \A i \in Indices :
        Started(i) =>
            IF ExistedBefore(i)
            THEN /\ IsPrefix(OpsOf(i), <<"Yank", "yank.resume", "yank.run">>)
                 /\ Finished(i) => OpsOf(i) = <<"Yank", "yank.resume", "yank.run">>
                 /\ snapshot_of(i) \notin DOMAIN files
            ELSE /\ \A j \in 1..Len(OpsOf(i)) : OpsOf(i)[j] # "yank.resume"
                 /\ OpsOf(i)[1] = "makedirs"

\* a build that resumed one experiment and built the other is done
C3_Witness ==
    /\ pc = "done"
    /\ \E i, j \in Indices :
         /\ ExistedBefore(i) /\ OpsOf(i) = <<"Yank", "yank.resume", "yank.run">>
         /\ ~ExistedBefore(j) /\ \E n \in 1..Len(OpsOf(j)) : OpsOf(j)[n] = "yank.create"

(***************************************************************************)
(* C4: when _setup_system finds the system directory of its triple, it     *)
(* returns that path and nothing else happens: no call is made (neither    *)
(* tleap nor the molecule stage), no directory or file is created or       *)
(* changed, and the molecule descriptors and both caches stay as they are. *)
(***************************************************************************)
C4_ExistingSystemDirReturned ==
    [][(pc = "setup_system" /\ system_dir_now \in dirs) =>
          /\ pc' = "prepare_amber"
          /\ system_dir' = system_dir_now
          /\ UNCHANGED <<dirs, files, log, molecules, oe_molecules, fixed_pos_cache>>]_vars

\* _setup_system has returned the path of a directory it did not create
C4_Witness ==
    /\ pc = "prepare_amber"
    /\ system_dir = system_dir_now
    /\ \A j \in 1..Len(OpsOf(k)) : OpsOf(k)[j] # "tleap.run"
    /\ \E j \in 1..Len(OpsOf(k)) : OpsOf(k)[j] = "generate_yaml"

(***************************************************************************)
(* C5: when the pre-flight check raises, the directory named in the error  *)
(* exists, the option named is the one of the stage of that directory      *)
(* (resume_setup for a molecule or system directory, resume_simulation for *)
(* the experiment directory), and that option is off for the combination   *)
(* at which the check raised.                                              *)
(***************************************************************************)
C5_ConflictErrorIsAccurate ==
    \A i \in Indices :
        CheckFailedAt(i) =>
            /\ error.directory \in dirs
            /\ \/ /\ error.solving_option = "resume_setup"
                  /\ \/ /\ error.what = "molecule setup directory"
                        /\ error.directory \in {receptor_dir_of(i), ligand_dir_of(i)}
                     \/ /\ error.what = "system setup directory"
                        /\ error.directory = system_dir_of(i)
                  /\ ~resume_setup_of(i)
               \/ /\ error.solving_option = "resume_simulation"
                  /\ error.what = "experiment directory"
                  /\ error.directory = experiment_dir_of(i)
                  /\ ~resume_simulation_of(i)

\* a setup conflict of a combination that turns off resume_setup itself,
\* in a document that turns it on
C5_Witness ==
    \E i \in Indices :
        /\ CheckFailedAt(i)
        /\ error.solving_option = "resume_setup"
        /\ options["resume_setup"]
        /\ ~resume_setup_of(i)

(***************************************************************************)
(* C6: a YamlParseError is raised only while the build has created no      *)
(* directory.                                                              *)
(***************************************************************************)
C6_YamlParseErrorBeforeAnyDirectory ==
    (pc = "error" /\ error.type = "YamlParseError") => CreatedDirs = {}

(***************************************************************************)
(* C7: in the save loop of the molecule stage, a molecule described by a   *)
(* name or by SMILES is written to its mol2 file again whether or not its  *)
(* directory exists, and a molecule given as a file whose directory exists *)
(* is passed over: its directory, the files and its descriptor stay as     *)
(* they are and no call is made.                                           *)
(***************************************************************************)
C7_GeneratedRewrittenFileSkipped ==
    [][pc = "save_molecule" =>
          LET mol_id == args[mol_idx]
              mol_dir == get_molecule_setup_dir(exp_opts_of(k)["output_dir"], mol_id)
              mol2_file == join(mol_dir, mol_id \o ".mol2")
          IN  IF "filepath" \notin DOMAIN MoleculeTable[mol_id]
              THEN /\ \E j \in Len(log) + 1 .. Len(log') :
                         log'[j] = Event("molecule_to_mol2", mol2_file)
                   /\ mol2_file \in DOMAIN files'
                   /\ mol_dir \in dirs'
              ELSE mol_dir \in dirs =>
                       /\ UNCHANGED <<molecules, files, dirs, log>>
                       /\ pc' \in {"save_molecule", "tleap"}]_vars

\* the molecule stage has run for a generated receptor and a ligand given as
\* a file, the directories of both being there before the build
C7_Witness ==
    /\ pc = "tleap"
    /\ "filepath" \notin DOMAIN MoleculeTable[args[1]]
    /\ "filepath" \in DOMAIN MoleculeTable[args[2]]
    /\ {get_molecule_setup_dir(exp_opts_of(k)["output_dir"], args[i]) : i \in 1..2}
           \subseteq InitialDirs
    /\ \E e \in Events : e.exp = k /\ e.op = "molecule_to_mol2"
    /\ molecules[args[2]] = MoleculeTable[args[2]]

(***************************************************************************)
(* C8: the experiments run one after another in the order of expansion:    *)
(* the calls of the log are grouped by experiment in that order, and an    *)
(* experiment has a call only when all the experiments before it returned  *)
(* from yank.run().  An exception ends the build where it is raised: the   *)
(* experiments before the failing one have completed, none after it has    *)
(* made a call, and no step follows.                                       *)
(***************************************************************************)
Completed(i) == OpsOf(i) # <<>> /\ OpsOf(i)[Len(OpsOf(i))] = "yank.run" /\ Finished(i)

C8_State ==
    /\ \A a, b \in 1..Len(log) : a < b => log[a].exp <= log[b].exp
    /\ \A i, j \in Indices : (i < j /\ Started(j)) => Completed(i)
    /\ error.type # "none" => pc \in {"error", "failed"}
    /\ pc \in {"error", "failed"} =>
          /\ error.type # "none"
          /\ error.exp = k
          /\ \A i \in Indices : i < k /\ error.where # "check_setup_resume" => Completed(i)
          /\ \A j \in Indices : j > k => ~Started(j)

C8_SequentialAndFailFast ==
    [](C8_State) /\ [][pc \notin {"error", "failed"}]_vars

\* the second experiment failed after the first one had completed
C8_Witness ==
    /\ pc = "failed"
    /\ k = 2
    /\ Completed(1)
    /\ Started(2)

(***************************************************************************)
(* C9: the solvents of the four cases of the test of consistency.  After   *)
(* _parse_solvents, a section that has a solvent with NoCutoff and a       *)
(* nonbondedCutoff, a solvent with another method and neither              *)
(* implicitSolvent nor clearance, or a solvent without nonbondedMethod was *)
(* rejected with a YamlParseError; the error names a solvent of the        *)
(* section, and never one with a method other than NoCutoff, a clearance   *)
(* and no implicitSolvent; a section of such solvents only is accepted.    *)
(***************************************************************************)
has(descr, field) == field \in DOMAIN descr

NoCutoffWithCutoff(s) ==
    has(s, "nonbondedMethod") /\ s["nonbondedMethod"] = "NoCutoff" /\ has(s, "nonbondedCutoff")
FiniteRange(s) == has(s, "nonbondedMethod") /\ s["nonbondedMethod"] # "NoCutoff"
NeitherImplicitNorClearance(s) ==
    FiniteRange(s) /\ ~has(s, "implicitSolvent") /\ ~has(s, "clearance")
ClearanceNoImplicit(s) ==
    FiniteRange(s) /\ has(s, "clearance") /\ ~has(s, "implicitSolvent")
Rejectable(s) ==
    NoCutoffWithCutoff(s) \/ NeitherImplicitNorClearance(s) \/ ~has(s, "nonbondedMethod")

C9_SolventValidation ==
    pc # "parse_solvents" =>
        /\ (\E id \in DOMAIN solvents : Rejectable(solvents[id])) =>
               pc = "error" /\ error.type = "YamlParseError"
        /\ pc = "error" =>
               /\ error.id \in DOMAIN solvents
               /\ ~ClearanceNoImplicit(solvents[error.id])
               /\ \A i \in DOMAIN dict_order :
                      Rejectable(solvents[dict_order[i]]) =>
                          \E j \in 1..i : dict_order[j] = error.id
        /\ (\A id \in DOMAIN solvents : ClearanceNoImplicit(solvents[id])) =>
               pc = "solvents_parsed"

\* the second solvent is rejected for its missing clearance, after a first
\* one with a clearance and a cutoff was accepted
C9_Witness ==
    /\ pc = "error"
    /\ Len(dict_order) = 2
    /\ error.id = dict_order[2]
    /\ NeitherImplicitNorClearance(solvents[dict_order[2]])
    /\ has(solvents[dict_order[2]], "nonbondedCutoff")
    /\ ClearanceNoImplicit(solvents[dict_order[1]])

(***************************************************************************)
(* C10: after _parse_molecules, a section is accepted only if each of its  *)
(* molecules has exactly one of filepath, name and smiles, has parameters  *)
(* and, when it has a filepath, the path ends in .mol2 or .pdb; a section  *)
(* with a molecule that has several sources or none was rejected; and the  *)
(* YamlParseError of a rejection names a molecule of the section that      *)
(* breaks one of these rules.                                              *)
(***************************************************************************)
EndsWith(path, suffix) ==
    Len(path) >= Len(suffix)
      /\ SubSeq(path, Len(path) - Len(suffix) + 1, Len(path)) = suffix

NumberOfSources(m) == Cardinality({"filepath", "name", "smiles"} \cap DOMAIN m)

WellFormed(m) ==
    /\ NumberOfSources(m) = 1
    /\ has(m, "parameters")
    /\ has(m, "filepath") =>
          \/ EndsWith(m["filepath"], <<".", "m", "o", "l", "2">>)
          \/ EndsWith(m["filepath"], <<".", "p", "d", "b">>)

Defective(exp) ==
    \/ "components" \notin DOMAIN exp
    \/ ~(DOMAIN exp \subseteq experiment_template)
    \/ /\ "components" \in DOMAIN exp
       /\ \/ DOMAIN exp["components"] # components_template
          \/ exp["components"]["receptor"] \notin DOMAIN molecules
          \/ exp["components"]["ligand"] \notin DOMAIN molecules
          \/ exp["components"]["solvent"] \notin DOMAIN solvents

C11_DefectiveExperimentRejected ==
    (pc \notin {"parse_experiments_section", "parse_experiments"}
       /\ \E i \in Indices : Defective(experiments[i].combination)) =>
        /\ pc = "error"
        /\ error.type = "YamlParseError"
        /\ \E i \in Indices : /\ Defective(experiments[i].combination)
                              /\ error.id = parsed_exp_name(i)

(***************************************************************************)
(* C20: after the experiments of a document with an experiments section    *)
(* were parsed, either every group the section names has its combination   *)
(* among the expanded ones, and all of them were found valid when the      *)
(* document was accepted, or some name stands for no block of the document *)
(* and the document was rejected with a YamlParseError that names it.      *)
(***************************************************************************)
Unresolved == {exp_name \in yaml_content["experiments"] : exp_name \notin DOMAIN yaml_content}

C20_ExperimentsSectionHonoured ==
    (pc # "parse_experiments_section" /\ "experiments" \in DOMAIN yaml_content) =>
        IF Unresolved = {}
        THEN /\ \A exp_name \in yaml_content["experiments"] :
                    \E i \in Indices :
                        /\ dict_order[i] = exp_name
                        /\ experiments[i].combination = yaml_content[exp_name]
             /\ pc = "experiments_parsed" =>
                    \A i \in Indices : ~Defective(experiments[i].combination)
        ELSE /\ pc = "error"
             /\ error.type = "YamlParseError"
             /\ error.id \in Unresolved

(***************************************************************************)
(* C12: when remove_overlap has returned, every atom of the positions it   *)
(* returns is farther than min_distance from every atom of every fixed     *)
(* group.                                                                  *)
(***************************************************************************)
Clear(rows, groups) ==
    \A g \in DOMAIN groups : \A i \in DOMAIN groups[g] : \A j \in DOMAIN rows :
        distance2(groups[g][i], rows[j]) > min_distance * min_distance

C12_ReturnedClearOfEveryGroup ==
    pc = "remove_overlap_returned" => Clear(x.rows, fixed_groups)

\* the loop ran for a molecule that was too close to the first of two groups
\* only
C12_Witness ==
    /\ pc = "remove_overlap_returned"
    /\ iterations > 0
    /\ Len(fixed_groups) = 2
    /\ ~Clear(mol_positions, <<fixed_groups[1]>>)
    /\ Clear(mol_positions, <<fixed_groups[2]>>)

(***************************************************************************)
(* C13: when the positions passed to remove_overlap are farther than       *)
(* min_distance from every fixed group, the body of the loop never runs    *)
(* and the positions returned are the ones passed; and no step of          *)
(* remove_overlap changes the array passed or a fixed group.               *)
(***************************************************************************)
C13_State ==
    (pc \in {"while", "remove_overlap_returned"} /\ Clear(mol_positions, fixed_groups)) =>
        /\ iterations = 0
        /\ x.rows = mol_positions

C13_ClearInputReturnedAsIs ==
    [](C13_State) /\ [][mol_positions' = mol_positions /\ fixed_groups' = fixed_groups]_vars

\* a molecule of two atoms that is clear of two groups was returned
C13_Witness ==
    /\ pc = "remove_overlap_returned"
    /\ Clear(mol_positions, fixed_groups)
    /\ Len(mol_positions) = 2
    /\ Len(fixed_groups) = 2
    /\ x.rows = mol_positions

(***************************************************************************)
(* C19: the loop of remove_overlap is left only with positions that are    *)
(* farther than min_distance from every fixed group, however often its     *)
(* body has run; and with sigma > 0 and fair draws, a call for which some  *)
(* placement of the molecule is clear of the fixed groups returns.         *)
(***************************************************************************)
Placements(rows) ==
    {m \in {displaced(rotated(rows, q), 1, displacement).rows :
               q \in Quaternions, displacement \in Displacements} : in_box(m)}

C19_NoCapAndTermination ==
    /\ [][(pc = "while" /\ pc' # "while") => Clear(x.rows, fixed_groups)]_vars
    /\ (pc = "while" /\ sigma > 0
          /\ \E m \in Placements(x.rows) : Clear(m, fixed_groups))
         ~> (pc = "remove_overlap_returned")

\* the loop returned after its body ran MaxIterations times or more
C19_Witness ==
    /\ pc = "remove_overlap_returned"
    /\ sigma > 0
    /\ iterations = MaxIterations
    /\ ~Clear(mol_positions, fixed_groups)

(***************************************************************************)
(* C14: when the build has stopped, with or without an exception, every    *)
(* directory of a stage that the build created stands for a stage that ran *)
(* to its end: the files of the molecule were written, the tleap output of *)
(* the system is there, and the run of the experiment was constructed.     *)
(***************************************************************************)
Stopped == pc \in {"done", "error", "failed"}

\* the files the molecule stage leaves in the directory of a molecule
MoleculeFiles(mol_dir, mol_id) ==
    LET mol_descr == MoleculeTable[mol_id]
    IN  (IF "filepath" \in DOMAIN mol_descr THEN {} ELSE {join(mol_dir, mol_id \o ".mol2")})
        \cup (IF "epik" \in DOMAIN mol_descr THEN {join(mol_dir, mol_id \o "-epik.mol2")} ELSE {})
        \cup (IF mol_descr["parameters"] = "antechamber"
              THEN {join(mol_dir, mol_id \o ".gaff.mol2"), join(mol_dir, mol_id \o ".frcmod")}
              ELSE {})

MoleculePrepared(mol_dir, mol_id) == MoleculeFiles(mol_dir, mol_id) \subseteq DOMAIN files

\* tleap wrote the topology of the system
SystemBuilt(sys_dir) == join(sys_dir, "complex.prmtop") \in DOMAIN files

\* yank.create() was called for the experiment and returned
RunConstructed(i) ==
    /\ \E e \in Events : e.op = "yank.create" /\ e.exp = i
    /\ ~(error.type # "none" /\ error.where = "yank.create" /\ error.exp = i)

C14_DirectoryImpliesStageCompleted ==
    Stopped =>
        \A i \in Indices :
            /\ receptor_dir_of(i) \in CreatedDirs =>
                   MoleculePrepared(receptor_dir_of(i), components_of(i).receptor)
            /\ ligand_dir_of(i) \in CreatedDirs =>
                   MoleculePrepared(ligand_dir_of(i), components_of(i).ligand)
            /\ system_dir_of(i) \in CreatedDirs => SystemBuilt(system_dir_of(i))
            /\ experiment_dir_of(i) \in CreatedDirs => RunConstructed(i)

(***************************************************************************)
(* C15: the calls made for an experiment whose directory the build created *)
(* come in the order of the stages: the directory, the Yank object, the    *)
(* snapshot, the system directory, the molecule stage, tleap, the residue  *)
(* name of the ligand, yank.create() and yank.run(); a call is made only   *)
(* after the directory was created and the snapshot written, and the       *)
(* snapshot is on disk from then on, also when a later call fails: no step *)
(* removes or rewrites it.                                                 *)
(***************************************************************************)
BuiltNew(i) == \E e \in Events : e.op = "makedirs" /\ e.exp = i /\ e.arg = results_dir_of(i)

\* the place of a call in the order of _run_experiment
StepOf(e) ==
    IF e.op = "makedirs" /\ e.arg = results_dir_of(e.exp) THEN 1
    ELSE IF e.op = "Yank" THEN 2
    ELSE IF e.op = "generate_yaml" THEN 3
    ELSE IF e.op = "makedirs" /\ e.arg = system_dir_of(e.exp) THEN 4
    ELSE IF e.op = "generate_molecule" THEN 5
    ELSE IF e.op = "read_oe_molecule" THEN 6
    ELSE IF e.op = "remove_overlap" THEN 7
    ELSE IF e.op \in {"makedirs", "molecule_to_mol2", "run_epik", "run_antechamber"} THEN 8
    ELSE IF e.op = "export_script" THEN 9
    ELSE IF e.op = "tleap.run" THEN 10
    ELSE IF e.op = "get_mol2_resname" THEN 11
    ELSE IF e.op = "prepare_amber" THEN 12
    ELSE IF e.op = "yank.create" THEN 13
    ELSE IF e.op = "yank.run" THEN 14
    ELSE 0

\* the calls made for combination i, in order, as their places
StepsOf(i) ==
    LET mine == SelectSeq(log, LAMBDA e : e.exp = i)
    IN  [j \in 1..Len(mine) |-> StepOf(mine[j])]

snapshot_path(i) == join(results_dir_of(i), exp_name_of(i) \o ".yaml")

C15_State ==
    \A i \in Indices : BuiltNew(i) =>
        LET steps == StepsOf(i)
            made == {steps[j] : j \in 1..Len(steps)}
        IN  /\ \A j \in 1..(Len(steps) - 1) : steps[j] <= steps[j + 1]
            /\ 0 \notin made
            /\ (\E step \in made : step > 3) => {1, 2, 3} \subseteq made
            /\ 3 \in made => snapshot_path(i) \in DOMAIN files
            /\ 13 \in made => {11, 12} \subseteq made
            /\ 14 \in made => 13 \in made

C15_StepsInOrder ==
    /\ [](C15_State)
    /\ [][\/ files' = files
           \/ \A i \in Indices : snapshot_path(i) \in DOMAIN files =>
                  /\ snapshot_path(i) \in DOMAIN files'
                  /\ files'[snapshot_path(i)] = files[snapshot_path(i)]]_vars

\* tleap failed for a new experiment with a generated molecule: the snapshot
\* is there
C15_Witness ==
    /\ pc = "failed"
    /\ error.where = "tleap.run"
    /\ BuiltNew(k)
    /\ \E e \in Events : e.exp = k /\ e.op = "generate_molecule"
    /\ snapshot_path(k) \in DOMAIN files

(***************************************************************************)
(* C16: when the pre-flight check raises, no combination before the one it *)
(* raised at has a conflict, and the directory and the resume option of    *)
(* the error are those of the first conflict of that combination in the    *)
(* order of the tests: the directory of the receptor, of the ligand, of    *)
(* the system, of the experiment.                                          *)
(***************************************************************************)
CheckOrder(i) == <<receptor_dir_of(i), ligand_dir_of(i), system_dir_of(i), experiment_dir_of(i)>>

ConflictsInOrder(i, existing) ==
    SelectSeq(CheckOrder(i), LAMBDA directory : directory \in Conflicts(i, existing))

C16_FirstConflictReported ==
    \A i \in Indices : CheckFailedAt(i) =>
        /\ \A j \in Indices : j < i => Conflicts(j, dirs) = {}
        /\ ConflictsInOrder(i, dirs) # <<>>
        /\ error.directory = ConflictsInOrder(i, dirs)[1]
        /\ error.solving_option =
               IF ConflictsInOrder(i, dirs)[1] = experiment_dir_of(i)
               THEN "resume_simulation" ELSE "resume_setup"

(***************************************************************************)
(* C17: for every combination, the options that govern it are its own      *)
(* where it gives them and the global ones elsewhere, in the pre-flight    *)
(* check and in the execution alike; the directories the check reports     *)
(* and the directories the execution uses are derived from that            *)
(* output_dir; and no step changes the global options or the experiments.  *)
(***************************************************************************)
Governing(i, key) ==
    LET combination == experiments[i].combination
    IN  IF "options" \in DOMAIN combination /\ key \in DOMAIN combination["options"]
        THEN combination["options"][key]
        ELSE options[key]

GoverningExperimentDir(i) == get_experiment_dir(Governing(i, "output_dir"), experiments[i].path)
GoverningSetupDirs(i) ==
    {get_molecule_setup_dir(Governing(i, "output_dir"), components_of(i).receptor),
     get_molecule_setup_dir(Governing(i, "output_dir"), components_of(i).ligand),
     get_system_setup_dir(Governing(i, "output_dir"), components_of(i).receptor,
                          components_of(i).ligand, components_of(i).solvent)}

\* the directory an event of the execution is about
DirOf(e) ==
    IF e.op \in {"makedirs", "Yank", "yank.resume", "yank.create", "yank.run",
                 "tleap.run", "prepare_amber"}
    THEN {e.arg} ELSE {}

C17_State ==
    /\ \A i \in Indices :
          /\ output_dir_of(i) = Governing(i, "output_dir")
          /\ resume_setup_of(i) = Governing(i, "resume_setup")
          /\ resume_simulation_of(i) = Governing(i, "resume_simulation")
          /\ \A key \in OptionKeys : exp_opts_of(i)[key] = Governing(i, key)
          /\ CheckFailedAt(i) =>
                 /\ error.directory \in GoverningSetupDirs(i) \cup {GoverningExperimentDir(i)}
                 /\ error.solving_option = "resume_setup" => ~Governing(i, "resume_setup")
                 /\ error.solving_option = "resume_simulation" =>
                        ~Governing(i, "resume_simulation")
    /\ \A j \in 1..Len(log) :
          /\ DirOf(log[j]) \subseteq
                 GoverningSetupDirs(log[j].exp) \cup {GoverningExperimentDir(log[j].exp)}
          /\ log[j].op \in {"Yank", "yank.resume", "yank.create", "yank.run"} =>
                 log[j].arg = GoverningExperimentDir(log[j].exp)

C17_OverridesPerCombination ==
    [](C17_State) /\ [][options' = options /\ experiments' = experiments]_vars

\* two experiments that differ in the output_dir they give were both run,
\* each in its own directory
C17_Witness ==
    /\ pc = "done"
    /\ Len(experiments) = 2
    /\ Governing(1, "output_dir") # Governing(2, "output_dir")
    /\ Governing(2, "output_dir") # options["output_dir"]
    /\ \E e \in Events : e.op = "makedirs" /\ e.exp = 1 /\ e.arg = GoverningExperimentDir(1)
    /\ \E e \in Events : e.op = "makedirs" /\ e.exp = 2 /\ e.arg = GoverningExperimentDir(2)

(***************************************************************************)
(* C18: when _setup_molecules has returned for a system, every generated   *)
(* molecule of the system is farther than min_distance from every molecule *)
(* of the system that was read from a file, and from every other generated *)
(* molecule of the system that comes before it in the arguments; this      *)
(* holds for the first system and for the ones after it.                   *)
(***************************************************************************)
GeneratedBefore(j) == {args[i] : i \in {h \in 1..Len(args) : h < j /\ args[h] \in oe_molecules}}

C18_GeneratedClearOfPlaced ==
    pc = "setup_molecules_returned" =>
        \A j \in 1..Len(args) : args[j] \in oe_molecules =>
            /\ \A fixed_id \in arg_ids \ oe_molecules :
                   Clear(oe_positions[args[j]], <<file_positions[fixed_id]>>)
            /\ \A placed_id \in GeneratedBefore(j) \ {args[j]} :
                   Clear(oe_positions[args[j]], <<oe_positions[placed_id]>>)

\* the second system uses a molecule generated for the first one, with
\* another partner, and the molecule had to be moved for it
C18_Witness ==
    /\ pc = "setup_molecules_returned"
    /\ k = 2
    /\ \E mol_id \in arg_ids \cap oe_molecules :
          /\ mol_id \in {components_of(1).receptor, components_of(1).ligand}
          /\ arg_ids \ {mol_id} # {}
          /\ arg_ids \ {mol_id} # {components_of(1).receptor, components_of(1).ligand} \ {mol_id}
    /\ iterations > 0

(***************************************************************************)
(* C21: the snapshot written for an experiment holds, as its molecules,    *)
(* the entries of the document for the receptor and the ligand of the      *)
(* experiment and no other, and as its solvents the entry of the document  *)
(* for its solvent and no other.                                           *)
(***************************************************************************)
C21_SnapshotHoldsReferencedEntries ==
    \A i \in Indices : snapshot_path(i) \in DOMAIN files =>
        LET snapshot == files[snapshot_path(i)]
        IN  /\ DOMAIN snapshot.molecules = {components_of(i).receptor, components_of(i).ligand}
            /\ \A mol_id \in DOMAIN snapshot.molecules :
                   snapshot.molecules[mol_id] = MoleculeTable[mol_id]
            /\ DOMAIN snapshot.solvents = {components_of(i).solvent}
            /\ \A solvent_id \in DOMAIN snapshot.solvents :
                   snapshot.solvents[solvent_id] = SolventTable[solvent_id]

(***************************************************************************)
(* C22: the combinations of one build have experiment directories that     *)
(* differ from one another, their names being at most 40 characters long;  *)
(* and an experiment is resumed only in a directory that was there before  *)
(* the build, never in one the build made for another experiment.          *)
(***************************************************************************)
max_name_length == 40

DistinctExperimentDirs ==
    \A i, j \in Indices : i # j => experiment_dir_of(i) # experiment_dir_of(j)

C22_State ==
    /\ DistinctExperimentDirs
    /\ \A i \in Indices : Len(experiments[i].path) <= max_name_length
    /\ \A j \in 1..Len(log) :
          /\ log[j].op = "yank.resume" => log[j].arg \notin CreatedDirs
          /\ (log[j].op = "makedirs" /\ log[j].arg = results_dir_of(log[j].exp)) =>
                 \A h \in 1..Len(log) :
                     (log[h].op = "makedirs" /\ log[h].arg = log[j].arg) => h = j

ReadyForAssembly(mol_id) ==
    LET mol_descr == molecules[mol_id]
    IN  /\ "filepath" \in DOMAIN mol_descr
        /\ mol_descr["parameters"] # "antechamber"
        /\ MoleculeTable[mol_id]["parameters"] = "antechamber" =>
               \E output_dir \in LeafValues.output_dir :
                   mol_descr["filepath"] =
                       join(get_molecule_setup_dir(output_dir, mol_id), mol_id \o ".gaff.mol2")

C23_DescriptorReadyForAssembly ==
    pc = "tleap" => \A mol_id \in arg_ids : ReadyForAssembly(mol_id)

(***************************************************************************)
(* C24: when the selection of the ligand atoms is derived for a new run,   *)
(* the descriptor of the ligand has a file path, so that the derivation    *)
(* never fails for want of one.                                            *)
(***************************************************************************)
C24_LigandFileAtSelection ==
    /\ pc = "prepare_amber" => "filepath" \in DOMAIN molecules[components_of(k).ligand]
    /\ ~(pc = "failed" /\ error.type = "KeyError")

(***************************************************************************)
(* C25: the pre-flight check raises for a molecule or system directory of  *)
(* a combination only when running the combination would set up its        *)
(* system: not when the directory of its experiment exists and             *)
(* resume_simulation is on, in which case the experiment is only resumed.  *)
(***************************************************************************)
OnlyResumed(i, existing) == experiment_dir_of(i) \in existing /\ resume_simulation_of(i)

C25_SetupConflictOnlyWhenSetupRuns ==
    \A i \in Indices :
        (CheckFailedAt(i) /\ error.solving_option = "resume_setup") => ~OnlyResumed(i, dirs)

EventsOf(op, arg) == {j \in 1..Len(log) : log[j].op = op /\ log[j].arg = arg}

====
